---- MODULE Spec2Model ----
(***************************************************************************)
(* Model of the pptr-scraper orchestrator: the WireGuard egress registry   *)
(* (src/src/wireguard.ts), the page pool (src/unnamed/part_000), the       *)
(* scrape state machine (src/src/scrape.ts) and the GET /scrape handler    *)
(* (src/unnamed/part_004).                                                 *)
(***************************************************************************)
EXTENDS Integers, Sequences, FiniteSets, TLC

VARIABLES
    configs,          \* WireGuardManager.configs: id -> config object
    activeConfigId,   \* WireGuardManager.activeConfigId (NoId when null)
    probes,           \* ids whose checkHealth, called by addConfig, awaits its fetch
    sweepProbe,       \* id whose checkHealth, called by checkAllHealth, awaits its fetch
    last,             \* the last registry operation, its inputs and its outcome
    params,           \* scrape: the ScrapeParams of the request
    upstream,         \* scrape: what the target answers to successive navigations
    pc,               \* scrape: where the call of scrape stands
    attempts,         \* scrape: its attempts argument
    events,           \* scrape: the navigations, oracle calls and connects made so far
    vpnUsed,          \* scrape: the egress point connected for this request
    result,           \* scrape: what scrape returned or threw
    doc,              \* scrape: the document in the session and what ran in it
    browser,          \* pool.ts: the module-level engine handle
    pages,            \* pool.ts: the sessions created so far and their state in the pool
    creates,          \* pool.ts: the factory.create calls in flight
    waiters,          \* pool.ts: the pending acquire calls, oldest first
    reqs,             \* GET /scrape: the requests and their position in the handler
    calls,            \* connectToVPN: the calls that stand at its await or returned
    scroll,           \* scrollToBottom: the loop of one call
    sweep,            \* checkAllHealth: the sweep under way and its probe
    engine,           \* pool.ts: the engines launched and the calls that launch them
    net               \* scrape: request interception on the session and its requests

regVars == <<configs, activeConfigId, probes, sweepProbe, last>>

scrapeVars == <<params, upstream, pc, attempts, events, vpnUsed, result, doc>>

poolVars == <<browser, pages, creates, waiters, reqs>>

auxVars == <<calls, scroll, sweep, engine, net>>

vars == <<regVars, scrapeVars, poolVars, auxVars>>

-----------------------------------------------------------------------------
(* Bounds of the model *)

\* largest Date.now() value an addConfig call can observe
MaxClock == 0

-----------------------------------------------------------------------------
(* The egress registry: src/src/wireguard.ts *)

NoId == "null"

\* initializeDefaultConfigs: the four pre-seeded points
DefaultConfigs ==
    [id \in {"istanbul-tr", "berlin-de", "brussels-be", "dubai-ae"} |->
        [location  |-> CASE id = "istanbul-tr" -> "tr"
                         [] id = "berlin-de"   -> "de"
                         [] id = "brussels-be" -> "be"
                         [] OTHER              -> "ae",
         isActive  |-> FALSE,
         isHealthy |-> FALSE]]

\* the marker texts validateConfig looks for
RequiredParts == {"[Interface]", "[Peer]", "PrivateKey", "PublicKey", "Endpoint"}

\* a configuration text is given by the set of marker texts that occur in
\* it; "Address" stands for any other content, {} is the empty string
ValidText == RequiredParts \cup {"Address"}

\* the arguments given to addConfig: <<name, location, config>>
AddInputs ==
    {<<"Paris", "de", ValidText>>, <<"", "de", ValidText>>,
     <<"Paris", "", ValidText>>, <<"Paris", "de", {}>>}
        \cup {<<"Paris", "de", ValidText \ {p}>> : p \in RequiredParts}

\* location hints given to selectBestConfig and connectToBestVPN ("" is
\* the empty or absent hint)
Locations == {"", "de", "us"}

\* data.name.toLowerCase().replace(/\s+/g, '-')
Slug(name) == IF name = "Paris" THEN "paris" ELSE name

\* `${slug}-${Date.now()}`
NewId(name, t) == Slug(name) \o "-" \o ToString(t)

\* ids a caller may pass to connect and remove
CallIds == {"berlin-de", "paris-0", "ghost"}

\* endpoints that answer a health probe when they are probed
AnsweringIds == {"berlin-de"}

\* what the tunnel tool does in disconnectVPN: `which wg-quick` fails
\* ("none"), `wg-quick down` succeeds ("ok") or throws ("fail")
DownOutcomes == {"none", "ok", "fail"}

\* what happens in connectToVPN after its disconnect: `which wg-quick` fails
\* ("none"), `wg-quick up` succeeds ("ok"), or writeFileSync or `wg-quick up`
\* throws ("fail")
UpOutcomes == {"none", "ok", "fail"}

\* String.prototype.includes on the configuration text
Includes(text, marker) == marker \in text

\* validateConfig without its check of the endpoint
validateConfig_noEndpoint(text) ==
    /\ Includes(text, "[Interface]")
    /\ Includes(text, "[Peer]")
    /\ Includes(text, "PrivateKey")
    /\ Includes(text, "PublicKey")

validateConfig(text) ==
    /\ Includes(text, "[Interface]")
    /\ Includes(text, "[Peer]")
    /\ Includes(text, "PrivateKey")
    /\ Includes(text, "PublicKey")
    /\ Includes(text, "Endpoint")

\* wireGuardConfigSchema: name, location and config are non-empty strings
wireGuardConfigSchema(name, location, text) ==
    name # "" /\ location # "" /\ text # {}

Ids == DOMAIN configs

\* the record of an operation: its name, its id or location argument and
\* what it returned ("throw:..." when it raised)
Op(op, arg, res) == [op |-> op, arg |-> arg, result |-> res]

\* the outcomes of `wg-quick down` that can be told apart in disconnectVPN
DownFor(cfgs, act) ==
    IF act # NoId /\ act \in DOMAIN cfgs THEN DownOutcomes ELSE {"none"}

\* disconnectVPN invoking the tunnel tool before it looks at the active
\* pointer
Disconnected_noEarlyReturn(cfgs, act, d) ==
    IF act = NoId \/ act \notin DOMAIN cfgs
    THEN [configs |-> cfgs, activeConfigId |-> act, down |-> d # "none",
          path |-> IF d = "none" THEN "return" ELSE "down"]
    ELSE IF d = "none"
    THEN [configs |-> [cfgs EXCEPT ![act].isActive = FALSE],
          activeConfigId |-> NoId, down |-> FALSE, path |-> "simulate"]
    ELSE IF d = "ok"
    THEN [configs |-> [cfgs EXCEPT ![act].isActive = FALSE],
          activeConfigId |-> NoId, down |-> TRUE, path |-> "down"]
    ELSE [configs |-> cfgs, activeConfigId |-> act, down |-> TRUE,
          path |-> "down"]

\* disconnectVPN as a function of the registry state and of what the tunnel
\* tool does; path is the branch taken: the early return, the simulated
\* disconnection when the tool is missing, or the invocation of the tool
Disconnected(cfgs, act, d) ==
    IF act = NoId \/ act \notin DOMAIN cfgs
    THEN [configs |-> cfgs, activeConfigId |-> act, down |-> FALSE,
          path |-> "return"]
    ELSE IF d = "none"
    THEN [configs |-> [cfgs EXCEPT ![act].isActive = FALSE],
          activeConfigId |-> NoId, down |-> FALSE, path |-> "simulate"]
    ELSE IF d = "ok"
    THEN [configs |-> [cfgs EXCEPT ![act].isActive = FALSE],
          activeConfigId |-> NoId, down |-> TRUE, path |-> "down"]
    ELSE [configs |-> cfgs, activeConfigId |-> act, down |-> TRUE,
          path |-> "down"]

\* connectToVPN taking a failed `wg-quick up` for a success
Connected_upFailureIgnored(cfgs, act, id, d, u) ==
    LET dis == Disconnected(cfgs, act, d) IN
    [configs |-> [dis.configs EXCEPT ![id].isActive = TRUE],
     activeConfigId |-> id, down |-> dis.down, up |-> u # "none",
     result |-> "true"]

\* connectToVPN for a registered id: the state after the call and its result
Connected(cfgs, act, id, d, u) ==
    LET dis == Disconnected(cfgs, act, d) IN
    IF u = "none"
    THEN [configs |-> [dis.configs EXCEPT ![id].isActive = TRUE],
          activeConfigId |-> id, down |-> dis.down, up |-> FALSE,
          result |-> "true"]
    ELSE IF u = "ok"
    THEN [configs |-> [dis.configs EXCEPT ![id].isActive = TRUE],
          activeConfigId |-> id, down |-> dis.down, up |-> TRUE,
          result |-> "true"]
    ELSE [configs |-> dis.configs, activeConfigId |-> dis.activeConfigId,
          down |-> dis.down, up |-> TRUE, result |-> "false"]

\* selectBestConfig without its filter by location
selectBestConfig_noFilter(cfgs, location) ==
    LET all     == DOMAIN cfgs
        healthy == {c \in all : cfgs[c].isHealthy}
    IN IF healthy = {} THEN all ELSE healthy

\* selectBestConfig falling back to every point when no candidate is healthy
selectBestConfig_fallbackAll(cfgs, location) ==
    LET all      == DOMAIN cfgs
        filtered == IF location # ""
                    THEN {c \in all : cfgs[c].location = location}
                    ELSE all
        healthy  == {c \in filtered : cfgs[c].isHealthy}
    IN IF healthy = {} THEN all ELSE healthy

\* selectBestConfig without its fall-back to every point when the filter by
\* location leaves none
selectBestConfig_filteredOnly(cfgs, location) ==
    LET all      == DOMAIN cfgs
        filtered == IF location # ""
                    THEN {c \in all : cfgs[c].location = location}
                    ELSE all
        healthy  == {c \in filtered : cfgs[c].isHealthy}
    IN IF healthy = {} THEN filtered ELSE healthy

\* selectBestConfig: the points Math.random may pick; {} when it returns null
selectBestConfig(cfgs, location) ==
    LET all      == DOMAIN cfgs
        filtered == IF location # ""
                    THEN {c \in all : cfgs[c].location = location}
                    ELSE all
        healthy  == {c \in filtered : cfgs[c].isHealthy}
    IN IF healthy = {}
       THEN (IF filtered # {} THEN filtered ELSE all)
       ELSE healthy

\* scrape has neither returned nor thrown
NoResult == [kind |-> "none"]

\* a document in which nothing ran yet: quiet tells whether the network
\* activity of the target's page ever ceases, api whether the page loaded
\* the widget library (window.turnstile), hooked whether the injected
\* script replaced turnstile.render, rendered which render the page called
\* ("no" when none); recovery lists the steps solveCloudflareTurnstile
\* completed for the request
DocIdle ==
    [quiet |-> TRUE, api |-> FALSE, hooked |-> FALSE, rendered |-> "no",
     recovery |-> <<>>]

\* scrollToBottom has not been called
ScrollIdle ==
    [pc |-> "idle", maxScrolls |-> 0, scrolls |-> 0, iterations |-> 0,
     previousHeight |-> 0, height |-> 0, waited |-> "none"]

\* checkAllHealth is not running
SweepIdle ==
    [pc |-> "idle", sweeps |-> 0, snapshot |-> {}, ids |-> <<>>,
     probing |-> NoId, outcome |-> "none", now |-> 0,
     lastHealthCheck |-> [id \in DOMAIN DefaultConfigs |-> 0],
     probed |-> {}, skipped |-> {}, detached |-> {}]

\* no engine of the engine model has been launched
EngineIdle == [handle |-> 0, engines |-> <<>>, procs |-> <<>>]

\* no session of the interception model is in use
NetIdle ==
    [pc |-> "idle", scrapes |-> 0, attempts |-> 1, blockResources |-> TRUE,
     interception |-> FALSE, handlers |-> 0, answers |-> <<>>]

\* no call of scrape is under way
ScrapeIdle ==
    /\ params = [url |-> "", vpnLocation |-> "", infiniteScroll |-> FALSE,
                 waitForNetwork |-> FALSE]
    /\ upstream = <<>>
    /\ pc = "idle"
    /\ attempts = 1
    /\ events = <<>>
    /\ vpnUsed = NoId
    /\ result = NoResult
    /\ doc = DocIdle

\* no call of connectToVPN stands at its await and no scroll loop runs
AuxIdle ==
    /\ calls = <<>>
    /\ scroll = ScrollIdle
    /\ sweep = SweepIdle
    /\ engine = EngineIdle
    /\ net = NetIdle

\* no request is served and the pool holds no session
PoolIdle ==
    /\ browser = "live"
    /\ pages = <<>>
    /\ creates = <<>>
    /\ waiters = <<>>
    /\ reqs = <<>>

\* the registry as its constructor leaves it: the pre-seeded points, no
\* active point, and the first health sweep started
InitRegistry ==
    /\ configs = DefaultConfigs
    /\ activeConfigId = NoId
    /\ probes = {}
    /\ sweepProbe = "istanbul-tr"
    /\ last = Op("new", "", "")
    /\ ScrapeIdle
    /\ PoolIdle
    /\ AuxIdle

addConfig(name, location, text, t) ==
    /\ UNCHANGED <<scrapeVars, poolVars, auxVars>>
    /\ IF ~wireGuardConfigSchema(name, location, text)
       THEN /\ last' = Op("add", "", "throw:schema")
            /\ UNCHANGED <<configs, activeConfigId, probes, sweepProbe>>
       ELSE IF ~validateConfig(text)
       THEN /\ last' = Op("add", "", "throw:format")
            /\ UNCHANGED <<configs, activeConfigId, probes, sweepProbe>>
       ELSE LET id == NewId(name, t) IN
            /\ configs' = (id :> [location |-> location, isActive |-> FALSE,
                                  isHealthy |-> FALSE]) @@ configs
            /\ probes' = probes \cup {id}
            /\ last' = Op("add", "", id)
            /\ UNCHANGED <<activeConfigId, sweepProbe>>

\* the values Date.now() can give to addConfig, which reads the clock only
\* once its input has been accepted
ClockReads(name, location, text) ==
    IF wireGuardConfigSchema(name, location, text) /\ validateConfig(text)
    THEN 0..MaxClock
    ELSE {0}

removeConfig(id, d) ==
    /\ UNCHANGED <<scrapeVars, poolVars, auxVars>>
    /\ IF id \notin Ids
       THEN /\ last' = Op("remove", id, "false")
            /\ UNCHANGED <<configs, activeConfigId, probes, sweepProbe>>
       ELSE LET dis == IF configs[id].isActive
                       THEN Disconnected(configs, activeConfigId, d)
                       ELSE [configs |-> configs,
                             activeConfigId |-> activeConfigId, down |-> FALSE]
            IN /\ configs' = [c \in Ids \ {id} |-> dis.configs[c]]
               /\ activeConfigId' = dis.activeConfigId
               /\ last' = Op("remove", id, "true")
               /\ UNCHANGED <<probes, sweepProbe>>

connectToVPN(id, d, u) ==
    /\ UNCHANGED <<scrapeVars, poolVars, auxVars>>
    /\ IF id \notin Ids
       THEN /\ last' = Op("connect", id, "throw:notfound")
            /\ UNCHANGED <<configs, activeConfigId, probes, sweepProbe>>
       ELSE LET c == Connected(configs, activeConfigId, id, d, u)
            IN /\ configs' = c.configs
               /\ activeConfigId' = c.activeConfigId
               /\ last' = Op("connect", id, c.result)
               /\ UNCHANGED <<probes, sweepProbe>>

disconnectVPN(d) ==
    /\ UNCHANGED <<scrapeVars, poolVars, auxVars>>
    /\ LET dis == Disconnected(configs, activeConfigId, d) IN
       /\ configs' = dis.configs
       /\ activeConfigId' = dis.activeConfigId
       /\ last' = Op("disconnect", dis.path, "void")
       /\ UNCHANGED <<probes, sweepProbe>>

\* connectToBestVPN as a function of the registry state: the states it can
\* leave and what it returns (the id of the connected point, or "null")
ConnectedToBest(cfgs, act, location, d, u) ==
    IF selectBestConfig(cfgs, location) = {}
    THEN {[configs |-> cfgs, activeConfigId |-> act, tried |-> FALSE,
           result |-> "null"]}
    ELSE {LET c == Connected(cfgs, act, id, d, u)
          IN [configs |-> c.configs, activeConfigId |-> c.activeConfigId,
              tried |-> TRUE,
              result |-> IF c.result = "true" THEN id ELSE "null"]
          : id \in selectBestConfig(cfgs, location)}

connectToBestVPN(location, d, u) ==
    /\ UNCHANGED <<scrapeVars, poolVars, auxVars>>
    /\ \E c \in ConnectedToBest(configs, activeConfigId, location, d, u) :
          /\ configs' = c.configs
          /\ activeConfigId' = c.activeConfigId
          /\ last' = Op("connectToBest", "", c.result)
          /\ UNCHANGED <<probes, sweepProbe>>

\* checkAllHealth: checkHealth of the next id, up to its await of fetch.
\* A probe of an endpoint that never answers ends in the catch branch and
\* leaves isHealthy = false as it was: only the probes of the endpoints that
\* may answer are steps of the model.
checkHealthStart(id) ==
    /\ UNCHANGED <<scrapeVars, poolVars, auxVars>>
    /\ id \in Ids \cap AnsweringIds
    /\ sweepProbe = NoId
    /\ sweepProbe' = id
    /\ last' = Op("probe", "", "pending")
    /\ UNCHANGED <<configs, activeConfigId, probes>>

\* the state of the points once the fetch of checkHealth(id) answered (ok)
\* or threw
Checked(cfgs, id, ok) ==
    IF id \in DOMAIN cfgs THEN [cfgs EXCEPT ![id].isHealthy = ok] ELSE cfgs

\* checkHealth after its await, in the sweep
checkHealthDone(ok) ==
    /\ UNCHANGED <<scrapeVars, poolVars, auxVars>>
    /\ sweepProbe # NoId
    /\ ok => sweepProbe \in AnsweringIds
    /\ sweepProbe' = NoId
    /\ configs' = Checked(configs, sweepProbe, ok)
    /\ last' = Op("probed", "", IF ok THEN "ok" ELSE "failed")
    /\ UNCHANGED <<activeConfigId, probes>>

\* checkHealth after its await, as called by addConfig
checkHealthAdded(id, ok) ==
    /\ UNCHANGED <<scrapeVars, poolVars, auxVars>>
    /\ id \in probes
    /\ ok => id \in AnsweringIds
    /\ probes' = probes \ {id}
    /\ configs' = Checked(configs, id, ok)
    /\ last' = Op("probed", "", IF ok THEN "ok" ELSE "failed")
    /\ UNCHANGED <<activeConfigId, sweepProbe>>

NextRegistry ==
    \/ \E in \in AddInputs :
          \E t \in ClockReads(in[1], in[2], in[3]) :
              addConfig(in[1], in[2], in[3], t)
    \/ \E id \in CallIds, d \in DownFor(configs, activeConfigId) :
          removeConfig(id, d)
    \/ \E id \in CallIds, d \in DownFor(configs, activeConfigId),
          u \in UpOutcomes : connectToVPN(id, d, u)
    \/ \E d \in DownOutcomes : disconnectVPN(d)
    \/ \E location \in Locations, d \in DownFor(configs, activeConfigId),
          u \in UpOutcomes : connectToBestVPN(location, d, u)
    \/ \E id \in Ids : checkHealthStart(id)
    \/ \E ok \in BOOLEAN : checkHealthDone(ok)
    \/ \E id \in probes, ok \in BOOLEAN : checkHealthAdded(id, ok)

SpecRegistry == InitRegistry /\ [][NextRegistry]_vars

-----------------------------------------------------------------------------
(* selectBestConfig applied to the registries the program can hold *)

\* the points of the registries selectBestConfig is applied to
SelectIds == {"istanbul-tr", "berlin-de"} \cup {NewId("Paris", t) : t \in 0..MaxClock}

\* the locations a point can have: a pre-seeded point keeps its own, an
\* added point has the one given to addConfig
LocationsOf(id) ==
    IF id \in DOMAIN DefaultConfigs
    THEN {DefaultConfigs[id].location}
    ELSE {"de", "us"}

\* every registry over SelectIds, with every combination of health flags
SelectRegistries ==
    UNION {
        {f \in [S -> [location : {"tr", "de", "us"}, isActive : {FALSE},
                      isHealthy : BOOLEAN]] :
            \A id \in S : f[id].location \in LocationsOf(id)}
        : S \in SUBSET SelectIds}

\* the hints given to selectBestConfig
SelectHints == {"", "de", "us", "tr"}

InitSelect ==
    /\ configs \in SelectRegistries
    /\ activeConfigId = NoId
    /\ probes = {}
    /\ sweepProbe = NoId
    /\ last = Op("new", "", "")
    /\ ScrapeIdle
    /\ PoolIdle
    /\ AuxIdle

\* one call of selectBestConfig: what Math.random picks is recorded
selectBest(location) ==
    /\ UNCHANGED <<scrapeVars, poolVars, auxVars>>
    /\ last.op = "new"
    /\ IF selectBestConfig(configs, location) = {}
       THEN last' = Op("select", location, "null")
       ELSE \E c \in selectBestConfig(configs, location) :
               last' = Op("select", location, c)
    /\ UNCHANGED <<configs, activeConfigId, probes, sweepProbe>>

NextSelect == \E location \in SelectHints : selectBest(location)

SpecSelect == InitSelect /\ [][NextSelect]_vars

-----------------------------------------------------------------------------
(* scrape: src/src/scrape.ts *)

\* navigations the target answers before the model stops following a
\* request
MaxNavs == 2

\* const maxAttempts = 1
maxAttempts == 1

\* the url query parameter of the requests followed
ScrapeUrls == {"https://target.test/"}

\* the entry check of scrape that never finds the ceiling exceeded
CeilingExceeded_never(n) == FALSE

\* the entry check of scrape: if (attempts > maxAttempts) throw ...
CeilingExceeded(n) == n > maxAttempts

\* new MaxScrapeAttemptsExceededError(url): the error and the parts its
\* message is made of
MaxScrapeAttemptsExceededError(url) ==
    [kind |-> "throw", error |-> "MaxScrapeAttemptsExceededError",
     message |-> <<"Max scrape attempts ", ToString(maxAttempts),
                   " exceeded while trying to scrape ", url>>]

\* a response the target gives to page.goto
Response(status, mitigated) ==
    [kind |-> "response", status |-> status, mitigated |-> mitigated,
     body |-> "OK"]

\* what page.goto can come back with: a response (200; 403 with the header
\* cf-mitigated: challenge, with another value of it and without it; 404;
\* 429 without and with that header), null, or an exception
NavOutcomes ==
    {Response(200, ""), Response(403, "challenge"), Response(403, "block"),
     Response(403, ""), Response(404, ""), Response(429, ""),
     Response(429, "challenge"),
     [kind |-> "null", status |-> 0, mitigated |-> "", body |-> ""],
     [kind |-> "throw", status |-> 0, mitigated |-> "", body |-> ""]}

\* isCloudflareMitigateResponse that accepts any value of the header
isCloudflareMitigateResponse_anyHeader(resp) ==
    resp.status = 403 /\ resp.mitigated # ""

\* isCloudflareMitigateResponse that looks at the status only
isCloudflareMitigateResponse_statusOnly(resp) == resp.status = 403

isCloudflareMitigateResponse(resp) ==
    resp.status = 403 /\ resp.mitigated = "challenge"

\* the RateLimited rule of the failover branch (documented behaviour: a
\* 429 response)
isRateLimited(resp) == resp.status = 429

\* the registries a request can meet: the pre-seeded points with the health
\* flags their probes left and dubai-ae connected or not, or no point at all
ScrapeRegistries ==
    {[id \in DOMAIN DefaultConfigs |->
        [DefaultConfigs[id] EXCEPT
            !.isHealthy = (id = "berlin-de" /\ b) \/ (id = "istanbul-tr" /\ i),
            !.isActive = (id = "dubai-ae" /\ a)]]
     : b \in BOOLEAN, i \in BOOLEAN, a \in BOOLEAN}
        \cup {[id \in {} |-> DefaultConfigs[id]]}

\* the vpnLocation query parameter ("" when absent)
ScrapeHints == {"", "de", "us"}

\* number of events of one kind made so far
RECURSIVE Count(_, _)
Count(seq, e) ==
    IF seq = <<>> THEN 0
    ELSE (IF seq[1] = e THEN 1 ELSE 0) + Count(Tail(seq), e)

\* navigations made so far
Navs == Count(events, "goto")

\* the response of the last navigation
Resp == upstream[Navs]

Thrown(what) == [kind |-> "throw", error |-> what]

\* where scrape goes once the response is taken as final
AfterEvaluate ==
    IF params.infiniteScroll THEN "scroll"
    ELSE IF params.waitForNetwork THEN "wait"
    ELSE "read"

\* what page.content() can give for a response: the document as rendered,
\* which may or may not coincide with the bytes received
PageContents(resp) == {resp.body, "rendered"}

InitScrape ==
    /\ configs \in ScrapeRegistries
    /\ activeConfigId = IF \E c \in Ids : configs[c].isActive
                        THEN "dubai-ae" ELSE NoId
    /\ probes = {}
    /\ sweepProbe = NoId
    /\ last = Op("new", "", "")
    /\ params \in [url : ScrapeUrls, vpnLocation : ScrapeHints,
                   infiniteScroll : BOOLEAN, waitForNetwork : BOOLEAN]
    /\ upstream \in [1..MaxNavs -> NavOutcomes]
    /\ pc = "enter"
    /\ attempts = 1
    /\ events = <<>>
    /\ vpnUsed = NoId
    /\ result = NoResult
    /\ doc \in {[DocIdle EXCEPT !.quiet = q] :
                   q \in IF params.waitForNetwork THEN BOOLEAN ELSE {TRUE}}
    /\ PoolIdle
    /\ AuxIdle

\* scrape, from its entry to page.goto: the ceiling on attempts
scrapeEnter ==
    /\ pc = "enter"
    /\ IF CeilingExceeded(attempts)
       THEN /\ result' = MaxScrapeAttemptsExceededError(params.url)
            /\ pc' = "done"
       ELSE /\ pc' = "goto"
            /\ UNCHANGED result
    /\ UNCHANGED <<auxVars, doc, regVars, params, upstream, attempts, events, vpnUsed, poolVars>>

\* page.goto(url, {timeout: 180000, waitUntil: waitForNetwork ?
\* 'networkidle0' : undefined}): what the call comes back with when the
\* target answers resp. With networkidle0 the call resolves once the
\* network has been idle; on a page that never is, it rejects at its timeout
Navigated(resp, waitForNetwork, quiet) ==
    IF waitForNetwork /\ ~quiet
    THEN [kind |-> "throw", status |-> 0, mitigated |-> "", body |-> ""]
    ELSE resp

\* what the k-th navigation of the request came back with
Answered(k) == Navigated(upstream[k], params.waitForNetwork, doc.quiet)

\* page.goto and the evaluation of what it came back with; the new document
\* starts without the widget library, and the injected script runs in it
scrapeGoto ==
    /\ pc = "goto"
    /\ Navs < Len(upstream)
    /\ events' = Append(events, "goto")
    /\ doc' = [doc EXCEPT !.api = FALSE, !.hooked = FALSE, !.rendered = "no"]
    /\ LET resp == Answered(Navs + 1) IN
       IF resp.kind = "throw"
       THEN result' = Thrown("goto") /\ pc' = "done"
       ELSE IF resp.kind = "null"
       THEN result' = [kind |-> "null"] /\ pc' = "done"
       ELSE IF isCloudflareMitigateResponse(resp)
       THEN pc' = "solve" /\ UNCHANGED result
       ELSE IF isRateLimited(resp)
       THEN pc' = "failover" /\ UNCHANGED result
       ELSE pc' = AfterEvaluate /\ UNCHANGED result
    /\ UNCHANGED <<auxVars, regVars, params, upstream, attempts, vpnUsed, poolVars>>

\* the challenge page loads the widget library: window.turnstile exists
pageLoadsApi ==
    /\ pc = "solve"
    /\ ~doc.api
    /\ doc' = [doc EXCEPT !.api = TRUE]
    /\ UNCHANGED <<auxVars, regVars, params, upstream, pc, attempts, events,
                   vpnUsed, result, poolVars>>

\* turnstileScript: a tick of its setInterval(..., 50) that finds
\* window.turnstile; it stops the timer and replaces turnstile.render
hookPoll ==
    /\ pc = "solve"
    /\ doc.api
    /\ ~doc.hooked
    /\ doc' = [doc EXCEPT !.hooked = TRUE]
    /\ UNCHANGED <<auxVars, regVars, params, upstream, pc, attempts, events,
                   vpnUsed, result, poolVars>>

\* the challenge page calls turnstile.render(container, params): the
\* replacement, which stores window.turnstileConfiguration and
\* window.tsCallback, or the original when the timer has not ticked yet
pageRender ==
    /\ pc = "solve"
    /\ doc.api
    /\ doc.rendered = "no"
    /\ doc' = [doc EXCEPT !.rendered = IF doc.hooked THEN "hooked"
                                       ELSE "original"]
    /\ UNCHANGED <<auxVars, regVars, params, upstream, pc, attempts, events,
                   vpnUsed, result, poolVars>>

\* solveCloudflareTurnstile: the step that follows each of its awaits, the
\* wait for network idle left out
NextRecoveryStep_noWait(step) ==
    CASE step = "solve"   -> "oracle"
      [] step = "oracle"  -> "deliver"
      [] step = "deliver" -> "enter"
      [] OTHER            -> "enter"

\* solveCloudflareTurnstile: the step that follows each of its awaits; after
\* the last one scrape calls itself
NextRecoveryStep(step) ==
    CASE step = "solve"   -> "oracle"
      [] step = "oracle"  -> "deliver"
      [] step = "deliver" -> "quiesce"
      [] OTHER            -> "enter"

\* the steps of a completed recovery, in their order
RecoveryOrder == <<"config", "solution", "token", "quiet">>

\* where the recovery goes after a step, and the recursive call of scrape
\* when it is over
Proceed(step, done) ==
    /\ doc' = [doc EXCEPT !.recovery = Append(@, done)]
    /\ pc' = NextRecoveryStep(step)
    /\ attempts' = IF NextRecoveryStep(step) = "enter"
                   THEN attempts + 1 ELSE attempts
    /\ UNCHANGED result

\* solveCloudflareTurnstile: page.evaluate(() => window.turnstileConfiguration);
\* without a captured configuration the value is undefined and reading its
\* sitekey throws
solveConfig ==
    /\ pc = "solve"
    /\ IF doc.rendered = "hooked"
       THEN Proceed("solve", "config")
       ELSE /\ result' = Thrown("solveCloudflareTurnstile")
            /\ pc' = "done"
            /\ UNCHANGED <<attempts, doc>>
    /\ UNCHANGED <<auxVars, regVars, params, upstream, events, vpnUsed, poolVars>>

\* solveCloudflareTurnstile: captchaSolver.turnstile; the call of the oracle
\* is recorded with what became of it
scrapeSolve(ok) ==
    /\ pc = "oracle"
    /\ events' = Append(events, IF ok THEN "solve" ELSE "solve:fail")
    /\ IF ok
       THEN Proceed("oracle", "solution")
       ELSE /\ result' = Thrown("solveCloudflareTurnstile")
            /\ pc' = "done"
            /\ UNCHANGED <<attempts, doc>>
    /\ UNCHANGED <<auxVars, regVars, params, upstream, vpnUsed, poolVars>>

\* solveCloudflareTurnstile: page.evaluate((val) => window.tsCallback?.(val))
solveDeliver(ok) ==
    /\ pc = "deliver"
    /\ IF ok
       THEN Proceed("deliver", "token")
       ELSE /\ result' = Thrown("solveCloudflareTurnstile")
            /\ pc' = "done"
            /\ UNCHANGED <<attempts, doc>>
    /\ UNCHANGED <<auxVars, regVars, params, upstream, events, vpnUsed, poolVars>>

\* solveCloudflareTurnstile: await page.waitForNetworkIdle({timeout: 300000}),
\* which resolves (idle) or rejects at its timeout, and the recursive call
\* of scrape that follows
solveQuiesce(idle) ==
    /\ pc = "quiesce"
    /\ IF idle
       THEN Proceed("quiesce", "quiet")
       ELSE /\ result' = Thrown("solveCloudflareTurnstile")
            /\ pc' = "done"
            /\ doc' = [doc EXCEPT !.recovery = Append(@, "quiet:timeout")]
            /\ UNCHANGED attempts
    /\ UNCHANGED <<auxVars, regVars, params, upstream, events, vpnUsed, poolVars>>

\* the failover branch: connect the best point for the hint and enter
\* scrape again with the same request, or return the blocked response as it
\* is. The connect is recorded with what became of `wg-quick up`.
\* scrape.ts as given has no such branch, although the handler passes
\* vpnLocation and reads vpnUsed: the branch follows the documented behaviour
\* (README, "VPN Integration")
scrapeFailover(d, u) ==
    /\ pc = "failover"
    /\ \E c \in ConnectedToBest(configs, activeConfigId, params.vpnLocation, d, u) :
          /\ configs' = c.configs
          /\ activeConfigId' = c.activeConfigId
          /\ events' = IF c.tried
                       THEN Append(events, IF u = "fail" THEN "connect:fail"
                                                         ELSE "connect")
                       ELSE events
          /\ IF c.result # "null"
             THEN /\ vpnUsed' = c.result
                  /\ pc' = "enter"
                  /\ UNCHANGED result
             ELSE /\ result' = [kind |-> "result", body |-> Resp.body,
                                status |-> Resp.status, vpnUsed |-> vpnUsed]
                  /\ pc' = "done"
                  /\ UNCHANGED vpnUsed
    /\ UNCHANGED <<auxVars, doc, probes, sweepProbe, last, params, upstream, attempts,
                   poolVars>>

\* scrollToBottom
scrapeScroll(ok) ==
    /\ pc = "scroll"
    /\ IF ok
       THEN /\ pc' = IF params.waitForNetwork THEN "wait" ELSE "read"
            /\ UNCHANGED result
       ELSE /\ result' = Thrown("scrollToBottom")
            /\ pc' = "done"
    /\ UNCHANGED <<auxVars, doc, regVars, params, upstream, attempts, events, vpnUsed, poolVars>>

\* page.waitForNetworkIdle: a timeout is ignored
scrapeWait(idle) ==
    /\ pc = "wait"
    /\ pc' = "read"
    /\ UNCHANGED <<auxVars, doc, regVars, params, upstream, attempts, events, vpnUsed,
                   result, poolVars>>

\* the body (page.content() or resp.buffer()) and the return value
scrapeRead(ok) ==
    /\ pc = "read"
    /\ pc' = "done"
    /\ IF ok
       THEN \E content \in (IF params.infiniteScroll
                            THEN PageContents(Resp) ELSE {Resp.body}) :
               result' = [kind |-> "result", body |-> content,
                          status |-> Resp.status, vpnUsed |-> vpnUsed]
       ELSE IF params.infiniteScroll
       THEN result' = Thrown("page.content")
       ELSE result' = [kind |-> "result", body |-> "null",
                       status |-> Resp.status, vpnUsed |-> vpnUsed]
    /\ UNCHANGED <<auxVars, doc, regVars, params, upstream, attempts, events, vpnUsed, poolVars>>

NextScrape ==
    \/ scrapeEnter
    \/ scrapeGoto
    \/ pageLoadsApi
    \/ hookPoll
    \/ pageRender
    \/ solveConfig
    \/ \E ok \in BOOLEAN : scrapeSolve(ok)
    \/ \E ok \in BOOLEAN : solveDeliver(ok)
    \/ \E idle \in BOOLEAN : solveQuiesce(idle)
    \/ \E d \in DownFor(configs, activeConfigId), u \in UpOutcomes :
          scrapeFailover(d, u)
    \/ \E ok \in BOOLEAN : scrapeScroll(ok)
    \/ \E idle \in BOOLEAN : scrapeWait(idle)
    \/ \E ok \in BOOLEAN : scrapeRead(ok)

SpecScrape == InitScrape /\ [][NextScrape]_vars

-----------------------------------------------------------------------------
(* Calls of connectToVPN that overlap: src/src/wireguard.ts *)

\* calls of connectToVPN followed in one run
MaxCalls == 2

\* the ids given to the overlapping calls
RaceIds == {"berlin-de", "dubai-ae", "ghost"}

\* connectToVPN after its await: writeFileSync, `which wg-quick`,
\* `wg-quick up`, the assignments and the catch block
TunnelUp(cfgs, act, id, u) ==
    IF u = "fail"
    THEN [configs |-> cfgs, activeConfigId |-> act, result |-> "false"]
    ELSE [configs |-> [c \in DOMAIN cfgs |->
                          IF c = id THEN [cfgs[c] EXCEPT !.isActive = TRUE]
                          ELSE cfgs[c]],
          activeConfigId |-> id, result |-> "true"]

\* the calls that stand at `await this.disconnectVPN()`
Awaiting == {k \in 1..Len(calls) : calls[k].pc = "awaiting"}

InitRace ==
    /\ configs \in ScrapeRegistries
    /\ activeConfigId = IF \E c \in Ids : configs[c].isActive
                        THEN "dubai-ae" ELSE NoId
    /\ probes = {}
    /\ sweepProbe = NoId
    /\ last = Op("new", "", "")
    /\ ScrapeIdle
    /\ PoolIdle
    /\ AuxIdle

\* connectToVPN from its entry to `await this.disconnectVPN()`: the lookup
\* of the id and the whole of disconnectVPN, which has no await of its own
connectEnter(id, d) ==
    /\ Len(calls) < MaxCalls
    /\ IF id \notin Ids
       THEN /\ calls' = Append(calls, [id |-> id, pc |-> "returned",
                                       result |-> "throw:notfound",
                                       down |-> "none", overlapped |-> FALSE])
            /\ UNCHANGED <<configs, activeConfigId>>
       ELSE LET dis == Disconnected(configs, activeConfigId, d) IN
            /\ configs' = dis.configs
            /\ activeConfigId' = dis.activeConfigId
            /\ calls' = Append([k \in 1..Len(calls) |->
                                  IF k \in Awaiting
                                  THEN [calls[k] EXCEPT !.overlapped = TRUE]
                                  ELSE calls[k]],
                               [id |-> id, pc |-> "awaiting", result |-> "",
                                down |-> d, overlapped |-> Awaiting # {}])
    /\ UNCHANGED <<probes, sweepProbe, last, scrapeVars, poolVars, scroll,
                   sweep, engine, net>>

\* connectToVPN from the resumption of its await to its return
connectResume(k, u) ==
    /\ k \in Awaiting
    /\ LET c == TunnelUp(configs, activeConfigId, calls[k].id, u) IN
       /\ configs' = c.configs
       /\ activeConfigId' = c.activeConfigId
       /\ calls' = [calls EXCEPT ![k].pc = "returned", ![k].result = c.result]
    /\ UNCHANGED <<probes, sweepProbe, last, scrapeVars, poolVars, scroll,
                   sweep, engine, net>>

NextRace ==
    \/ \E id \in RaceIds, d \in DownFor(configs, activeConfigId) :
          connectEnter(id, d)
    \/ \E k \in 1..MaxCalls, u \in UpOutcomes : connectResume(k, u)

SpecRace == InitRace /\ [][NextRace]_vars

-----------------------------------------------------------------------------
(* scrollToBottom: src/src/scrape.ts *)

\* largest document.body.scrollHeight the page takes
MaxHeight == 3

Heights == 1..MaxHeight

\* opts?.maxScrolls ?? 20
DefaultMaxScrolls == 20

\* const newItemsLoadTimeout = 20000
newItemsLoadTimeout == 20000

\* page.waitForFunction(..., { timeout: 60000, polling: 100 })
waitForFunctionTimeout == 60000

\* the maxScrolls query parameter is absent (the schema admits integers from
\* 1 on only)
Undefined == 0

\* the values of opts.maxScrolls
ScrollOptions == {Undefined, 1, 2, 3}

\* const maxScrolls = opts?.maxScrolls ?? 20
MaxScrollsOf(opt) == IF opt = Undefined THEN DefaultMaxScrolls ELSE opt

\* how page.waitForFunction(Date.now() >= waitNewItemsUntil ||
\* scrollHeight > previousHeight) ends: the height grew, the deadline of the
\* iteration passed, or the timeout of waitForFunction passed first and the
\* call rejects
Waited(previousHeight, height) ==
    IF height > previousHeight THEN "grew"
    ELSE IF newItemsLoadTimeout < waitForFunctionTimeout THEN "deadline"
    ELSE "timeout"

\* if (currentHeight === previousHeight) break
Converged(previousHeight, currentHeight) == currentHeight = previousHeight

InitScroll ==
    /\ configs = DefaultConfigs
    /\ activeConfigId = NoId
    /\ probes = {}
    /\ sweepProbe = NoId
    /\ last = Op("new", "", "")
    /\ ScrapeIdle
    /\ PoolIdle
    /\ calls = <<>>
    /\ sweep = SweepIdle
    /\ engine = EngineIdle
    /\ net = NetIdle
    /\ scroll \in {[pc |-> "loop", maxScrolls |-> MaxScrollsOf(opt),
                    scrolls |-> 0, iterations |-> 0, previousHeight |-> 0,
                    height |-> h, waited |-> "none"]
                   : opt \in ScrollOptions, h \in Heights}

\* one pass through the body of the for loop, with the test that precedes
\* the next one. The page has height h once it has been scrolled to the
\* bottom and the wait has ended; ok is false when a page.evaluate fails
scrollIteration(h, ok) ==
    /\ scroll.pc = "loop"
    /\ scroll.scrolls < scroll.maxScrolls
    /\ LET previousHeight == scroll.height
           waited == Waited(previousHeight, h)
           stop == Converged(previousHeight, h)
           scrolls == IF stop THEN scroll.scrolls ELSE scroll.scrolls + 1
       IN scroll' = [scroll EXCEPT
                        !.iterations = @ + 1,
                        !.previousHeight = previousHeight,
                        !.height = h,
                        !.waited = waited,
                        !.scrolls = IF ok /\ waited # "timeout"
                                    THEN scrolls ELSE @,
                        !.pc = IF ~ok \/ waited = "timeout" THEN "thrown"
                               ELSE IF stop \/ ~(scrolls < scroll.maxScrolls)
                               THEN "done" ELSE "loop"]
    /\ UNCHANGED <<regVars, scrapeVars, poolVars, calls, sweep, engine, net>>

NextScroll == \E h \in Heights, ok \in BOOLEAN : scrollIteration(h, ok)

SpecScroll == InitScroll /\ [][NextScroll]_vars

-----------------------------------------------------------------------------
(* The page pool and the GET /scrape handler: src/unnamed/part_000 (pool.ts) *)
(* and src/unnamed/part_004 (index.ts)                                       *)

\* requests served in one run of the model
MaxRequests == 3

\* the --max-tabs option
MaxTabs == 2

\* newPage: const maxAttempts = 5
newPageMaxAttempts == 5

Requests == 1..MaxRequests

\* no session: page = null in the handler
NoPage == 0

\* the max option given to createPool without the limit of the option
PoolMax_plusOne == MaxTabs + 1

\* createPool(..., { max: Number(program.opts.maxTabs) })
PoolMax == MaxTabs

\* newPage: whether another attempt follows a failed one, comparing with >
RetryAllowed_off(n) == ~(n > newPageMaxAttempts)

\* newPage: whether another attempt follows a failed one
\* (if (attempts >= maxAttempts) throw ...)
RetryAllowed(n) == ~(n >= newPageMaxAttempts)

\* the finally block of a handler that always releases
GiveBack_alwaysRelease(errored) == "release"

\* the finally block of the handler: destroy if errored, release otherwise
GiveBack(errored) == IF errored THEN "destroy" ELSE "release"

\* sessions the pool counts: idle or borrowed
LivePages(pg) == {p \in DOMAIN pg : pg[p].st \in {"idle", "borrowed"}}

IdlePages(pg) == {p \in DOMAIN pg : pg[p].st = "idle"}

BorrowedPages(pg) == {p \in DOMAIN pg : pg[p].st = "borrowed"}

Min(a, b) == IF a < b THEN a ELSE b

\* factory.create up to its first await: assert(browser), then newPage()
NewCreate(br) ==
    [pc       |-> IF br = "null" THEN "rejected" ELSE "newPage",
     attempts |-> 1,
     checked  |-> FALSE,
     cause    |-> IF br = "null" THEN "assert" ELSE "none"]

\* Pool._dispense: the factory.create calls started for the pending
\* acquires that neither an idle session nor a create in flight can serve,
\* as far as max allows
StartCreates(pg, cr, wt, br) ==
    LET shortfall == Len(wt) - (Cardinality(IdlePages(pg)) + Len(cr))
        capacity  == PoolMax - (Cardinality(LivePages(pg)) + Len(cr))
        n         == Min(shortfall, capacity)
    IN IF n > 0 THEN cr \o [i \in 1..n |-> NewCreate(br)] ELSE cr

\* Pool._dispense: an idle session is lent to the oldest pending acquire
Hand(pg, wt, rq) ==
    IF wt # <<>> /\ IdlePages(pg) # {}
    THEN {[pages   |-> [pg EXCEPT ![p].st = "borrowed", ![p].by = Head(wt)],
           waiters |-> Tail(wt),
           reqs    |-> [rq EXCEPT ![Head(wt)].pc = "acquired",
                                  ![Head(wt)].page = p]]
          : p \in IdlePages(pg)}
    ELSE {[pages |-> pg, waiters |-> wt, reqs |-> rq]}

\* Pool._dispense
Dispensed(pg, cr, wt, rq, br) ==
    {[pages |-> h.pages, waiters |-> h.waiters, reqs |-> h.reqs,
      creates |-> StartCreates(pg, cr, wt, br)] : h \in Hand(pg, wt, rq)}

\* the pool after _dispense
Dispense(pg, cr, wt, rq, br) ==
    \E s \in Dispensed(pg, cr, wt, rq, br) :
        /\ pages' = s.pages
        /\ creates' = s.creates
        /\ waiters' = s.waiters
        /\ reqs' = s.reqs

\* a sequence without its i-th element
Without(seq, i) == SubSeq(seq, 1, i - 1) \o SubSeq(seq, i + 1, Len(seq))

\* main(): the engine is launched before the server listens
InitPool ==
    /\ configs = DefaultConfigs
    /\ activeConfigId = NoId
    /\ probes = {}
    /\ sweepProbe = NoId
    /\ last = Op("new", "", "")
    /\ ScrapeIdle
    /\ browser = "live"
    /\ pages = <<>>
    /\ creates = <<>>
    /\ waiters = <<>>
    /\ reqs = [r \in Requests |->
                 [pc |-> "new", page |-> NoPage, errored |-> FALSE,
                  fault |-> FALSE, released |-> 0, destroyed |-> 0,
                  fetches |-> 0, fetched |-> "none", sent |-> "none"]]
    /\ AuxIdle

\* the next request arrives: requests are numbered in their order of arrival
Arrives(r) ==
    /\ reqs[r].pc = "new"
    /\ \A q \in Requests : q < r => reqs[q].pc # "new"

\* GET /scrape: the flags of the query
Flags ==
    [noBrowser : BOOLEAN, screenshot : BOOLEAN, disableJs : BOOLEAN,
     infiniteScroll : BOOLEAN]

\* the requests that may ask for noBrowser. A request without a session
\* shares no state with the others: one such request, arriving once the
\* others have, stands for all of them
LightRequests == {MaxRequests}

\* the flags request r may carry
FlagsOf(r) ==
    IF r \in LightRequests THEN Flags ELSE {f \in Flags : ~f.noBrowser}

\* GET /scrape: the combinations of flags the handler answers with 400
\* (the handler with the disableJs flag, part_003; the handler of part_004
\* has no disableJs flag and keeps the second test only)
Rejected(f) ==
    \/ f.noBrowser /\ f.disableJs
    \/ f.noBrowser /\ f.screenshot

\* what fetch(url) can come back with: the status of the response, or an
\* exception
FetchOutcomes == {"200", "403", "429", "throw"}

\* the noBrowser branch fetching again when the response is 403 or 429
DirectFetch_retriesBlocked(fetched) ==
    [fetches |-> IF fetched \in {"403", "429"} THEN 2 ELSE 1,
     errored |-> fetched = "throw",
     sent    |-> IF fetched = "throw" THEN "500" ELSE fetched]

\* the noBrowser branch: one fetch(url), whose response is answered with its
\* own status; an exception of fetch ends in the catch block (500)
DirectFetch(fetched) ==
    [fetches |-> 1,
     errored |-> fetched = "throw",
     sent    |-> IF fetched = "throw" THEN "500" ELSE fetched]

\* GET /scrape with a combination of flags that is refused: 400, return
handleReject(r, f) ==
    /\ Arrives(r)
    /\ Rejected(f)
    /\ reqs' = [reqs EXCEPT ![r].pc = "done", ![r].sent = "400"]
    /\ UNCHANGED <<auxVars, regVars, scrapeVars, browser, pages, creates, waiters>>

\* GET /scrape with noBrowser: fetch, no session
handleNoBrowser(r, f, fetched) ==
    /\ Arrives(r)
    /\ ~Rejected(f)
    /\ f.noBrowser
    /\ LET direct == DirectFetch(fetched) IN
       reqs' = [reqs EXCEPT ![r].pc = "finally",
                            ![r].fetches = @ + direct.fetches,
                            ![r].fetched = fetched,
                            ![r].errored = direct.errored,
                            ![r].sent = direct.sent]
    /\ UNCHANGED <<auxVars, regVars, scrapeVars, browser, pages, creates, waiters>>

\* GET /scrape: pool.acquire()
handleAcquire(r, f) ==
    /\ Arrives(r)
    /\ ~Rejected(f)
    /\ ~f.noBrowser
    /\ Dispense(pages, creates, Append(waiters, r),
                [reqs EXCEPT ![r].pc = "acquiring"], browser)
    /\ UNCHANGED <<auxVars, regVars, scrapeVars, browser>>

\* the catch block of the handler after a fault in the use of the session:
\* errored = true, then await page.screenshot(...), then
\* res.status(500).json({error: err.message}). When the screenshot throws
\* (shot is false) the exception leaves the catch block and the answer with
\* the original error is never sent ("error")
Caught(shot) ==
    [errored |-> TRUE, sent |-> IF shot THEN "500" ELSE "error"]

\* whether the failure screenshot of request r can be taken. The answer to
\* a fault is followed for the requests that arrive last, and the
\* screenshot can fail for them
Shots(r) == IF r \in LightRequests THEN BOOLEAN ELSE {TRUE}

\* GET /scrape with its session: page.reload(), scrape and the response.
\* scrape returns a result ("result") or null ("null": the handler then calls
\* res.json twice, which may throw), or something throws ("throw"); the
\* catch block then takes a screenshot, which succeeds or not (shot)
handleUse(r, outcome, throws, shot) ==
    /\ reqs[r].pc = "acquired"
    /\ LET err == outcome = "throw" \/ (outcome = "null" /\ throws) IN
       /\ reqs' = [reqs EXCEPT ![r].pc = "finally",
                               ![r].errored = IF err THEN Caught(shot).errored
                                              ELSE FALSE,
                               ![r].fault = err,
                               ![r].sent = IF outcome = "throw"
                                              /\ r \in LightRequests
                                           THEN Caught(shot).sent ELSE @]
       /\ pages' = [pages EXCEPT ![reqs[r].page].faulted = err]
    /\ UNCHANGED <<auxVars, regVars, scrapeVars, browser, creates, waiters>>

\* browser.close(), when closing holds: the sessions opened on the engine go
\* with it; closedBy keeps which caller closed the engine of the session
EngineClosed(pg, closing, caller) ==
    [p \in DOMAIN pg |->
        [pg[p] EXCEPT !.closedBy = IF closing /\ @ = "none" THEN caller ELSE @]]

\* GET /scrape: the finally block. factory.destroy closes the page; when
\* that fails the engine is closed and launched again (relaunched tells
\* whether the launch succeeded)
handleFinally(r, closed, relaunched) ==
    /\ reqs[r].pc = "finally"
    /\ LET p == reqs[r].page IN
       IF p = NoPage
       THEN /\ reqs' = [reqs EXCEPT ![r].pc = "done"]
            /\ UNCHANGED <<browser, pages, creates, waiters>>
       ELSE IF GiveBack(reqs[r].errored) = "destroy"
       THEN /\ browser' = IF closed THEN browser
                          ELSE IF relaunched THEN "live" ELSE "dead"
            /\ Dispense([EngineClosed(pages, ~closed, "destroy")
                            EXCEPT ![p].st = "destroyed", ![p].by = 0],
                        creates, waiters,
                        [reqs EXCEPT ![r].pc = "done",
                                     ![r].destroyed = @ + 1],
                        browser)
       ELSE /\ browser' = browser
            /\ Dispense([pages EXCEPT ![p].st = "idle", ![p].by = 0],
                        creates, waiters,
                        [reqs EXCEPT ![r].pc = "done",
                                     ![r].released = @ + 1],
                        browser)
    /\ UNCHANGED <<auxVars, regVars, scrapeVars>>

\* the engine dies: its handle stays, its calls fail
engineCrash ==
    /\ browser = "live"
    /\ browser' = "dead"
    /\ UNCHANGED <<auxVars, regVars, scrapeVars, pages, creates, waiters, reqs>>

\* newPage: one attempt. "ok": the engine (launched if there was none) opens
\* a page; "launchFail": puppeteer.launch throws; "openFail": browser.newPage
\* throws. Before another attempt the engine is closed and its handle cleared
newPage(i, outcome) ==
    /\ i \in DOMAIN creates
    /\ creates[i].pc = "newPage"
    /\ outcome = "launchFail" => browser = "null"
    /\ outcome = "ok" => browser # "dead"
    /\ LET n        == creates[i].attempts
           launched == IF browser = "null" /\ outcome # "launchFail"
                       THEN "live" ELSE browser
       IN IF outcome = "ok"
          THEN /\ browser' = launched
               /\ creates' = [creates EXCEPT ![i].pc = "finish",
                                             ![i].checked = TRUE]
               /\ UNCHANGED pages
          ELSE IF RetryAllowed(n)
          THEN /\ browser' = "null"
               /\ creates' = [creates EXCEPT ![i].attempts = n + 1]
               /\ pages' = EngineClosed(pages, browser # "null", "newPage")
          ELSE /\ browser' = launched
               /\ creates' = [creates EXCEPT ![i].pc = "rejected",
                                             ![i].cause = "newPage"]
               /\ UNCHANGED pages
    /\ UNCHANGED <<auxVars, regVars, scrapeVars, waiters, reqs>>

\* factory.create after the liveness check: dummy.close(), newInjectedPage,
\* page.evaluateOnNewDocument(turnstileScript), whose promise is dropped
\* (hook: "pending"), and the pool taking the session in
createFinish(i, ok) ==
    /\ i \in DOMAIN creates
    /\ creates[i].pc = "finish"
    /\ IF ok
       THEN Dispense(Append(pages, [st |-> "idle", by |-> 0,
                                    checked |-> creates[i].checked,
                                    faulted |-> FALSE, closedBy |-> "none",
                                    hook |-> "pending"]),
                     Without(creates, i), waiters, reqs, browser)
       ELSE /\ creates' = [creates EXCEPT ![i].pc = "rejected",
                                          ![i].cause = "create"]
            /\ UNCHANGED <<pages, waiters, reqs>>
    /\ UNCHANGED <<auxVars, regVars, scrapeVars, browser>>

\* the pool after factory.create rejected: the error is emitted and
\* _dispense runs again
createRejected(i) ==
    /\ i \in DOMAIN creates
    /\ creates[i].pc = "rejected"
    /\ Dispense(pages, Without(creates, i), waiters, reqs, browser)
    /\ UNCHANGED <<auxVars, regVars, scrapeVars, browser>>

NextPool ==
    \/ \E r \in Requests : \E f \in FlagsOf(r) : handleReject(r, f)
    \/ \E r \in Requests, fetched \in FetchOutcomes :
          \E f \in FlagsOf(r) : handleNoBrowser(r, f, fetched)
    \/ \E r \in Requests : \E f \in FlagsOf(r) : handleAcquire(r, f)
    \/ \E r \in Requests, outcome \in {"result", "null", "throw"},
          throws \in BOOLEAN :
              \E shot \in Shots(r) : handleUse(r, outcome, throws, shot)
    \/ \E r \in Requests, closed \in BOOLEAN, relaunched \in BOOLEAN :
          handleFinally(r, closed, relaunched)
    \/ engineCrash
    \/ \E i \in 1..MaxTabs, outcome \in {"ok", "launchFail", "openFail"} :
          newPage(i, outcome)
    \/ \E i \in 1..MaxTabs, ok \in BOOLEAN : createFinish(i, ok)
    \/ \E i \in 1..MaxTabs : createRejected(i)

SpecPool == InitPool /\ [][NextPool]_vars

\* the pool and the handler under fair scheduling: a handler that holds a
\* session goes on to its finally block and gives the session back, the
\* continuations of factory.create run, and a launch, a page opening or a
\* creation that is attempted again and again succeeds in the end; the
\* engine may crash at any time
FairPool ==
    /\ WF_vars(\E r \in Requests, outcome \in {"result", "null", "throw"},
                  throws \in BOOLEAN :
                      \E shot \in Shots(r) : handleUse(r, outcome, throws, shot))
    /\ WF_vars(\E r \in Requests, closed \in BOOLEAN, relaunched \in BOOLEAN :
                  handleFinally(r, closed, relaunched))
    /\ WF_vars(\E i \in 1..MaxTabs, outcome \in {"ok", "launchFail", "openFail"} :
                  newPage(i, outcome))
    /\ WF_vars(\E i \in 1..MaxTabs, ok \in BOOLEAN : createFinish(i, ok))
    /\ WF_vars(\E i \in 1..MaxTabs : createRejected(i))
    /\ SF_vars(\E i \in 1..MaxTabs : newPage(i, "ok"))
    /\ SF_vars(\E i \in 1..MaxTabs : createFinish(i, TRUE))

SpecPoolFair == InitPool /\ [][NextPool]_vars /\ FairPool

\* the promise of page.evaluateOnNewDocument(turnstileScript) settles: the
\* script is registered with the session (ok) or the call failed
hookSettles(p, ok) ==
    /\ p \in DOMAIN pages
    /\ pages[p].hook = "pending"
    /\ pages' = [pages EXCEPT ![p].hook = IF ok THEN "done" ELSE "failed"]
    /\ UNCHANGED <<auxVars, regVars, scrapeVars, browser, creates, waiters, reqs>>

\* the pool and the handler together with the registrations they started
NextInstrument ==
    \/ NextPool
    \/ \E p \in 1..(MaxRequests + MaxTabs), ok \in BOOLEAN : hookSettles(p, ok)

SpecInstrument == InitPool /\ [][NextInstrument]_vars

-----------------------------------------------------------------------------
(* Claims about the egress registry *)

ActiveIds == {c \in Ids : configs[c].isActive}

\* C1: in every state reachable by add, remove, connect, disconnect and
\* connectToBest, each run to completion, with tunnel-up and tunnel-down
\* allowed to fail, at most one registered point has isActive = true.
C1_AtMostOneActive == Cardinality(ActiveIds) <= 1

\* the registered points with the location of the hint
Matching(location) == {c \in Ids : configs[c].location = location}

\* C8: when at least one registered point has location L, selectBest(L)
\* returns a point whose location is L, whatever the health flags are.
C8_SelectKeepsLocation ==
    (last.op = "select" /\ last.arg # "" /\ Matching(last.arg) # {})
        => (last.result \in Ids /\ configs[last.result].location = last.arg)

\* a call of selectBest with a hint that matches only unhealthy points while
\* a healthy point of another location is registered
C8_Witness ==
    /\ last.op = "select" /\ last.arg = "de"
    /\ Matching("de") # {}
    /\ \A c \in Matching("de") : ~configs[c].isHealthy
    /\ \E c \in Ids : configs[c].isHealthy /\ configs[c].location # "de"
    /\ last.result \in Matching("de")

\* the points selectBest may choose from according to the claim: the
\* location-matching points when any match, otherwise all registered points
ChoiceSet(location) ==
    IF location # "" /\ Matching(location) # {}
    THEN Matching(location)
    ELSE Ids

\* C9: if at least one healthy point is available to choose from (among the
\* location-matching points when any match, otherwise among all registered
\* points), selectBest returns a healthy point.
C9_SelectPrefersHealthy ==
    (last.op = "select" /\ \E c \in ChoiceSet(last.arg) : configs[c].isHealthy)
        => (last.result \in Ids /\ configs[last.result].isHealthy)

\* a configuration text in which a required part does not occur
LacksRequiredPart(text) == RequiredParts \ text # {}

\* C10: add() with a configuration text that lacks a required part raises a
\* validation error and leaves the registry unchanged: same points, same
\* active point, and no health probe is started.
C10_InvalidAddRejected ==
    [][last'.op = "add" =>
          \A in \in AddInputs, t \in 0..MaxClock :
              (LacksRequiredPart(in[3]) /\ addConfig(in[1], in[2], in[3], t))
                  => /\ last'.result \in {"throw:format", "throw:schema"}
                     /\ configs' = configs
                     /\ activeConfigId' = activeConfigId
                     /\ probes' = probes
                     /\ sweepProbe' = sweepProbe]_vars

\* an add with a text lacking a part has been rejected while a point added
\* before is registered and another point is active
C10_Witness ==
    /\ last.op = "add" /\ last.result = "throw:format"
    /\ "paris-0" \in Ids
    /\ activeConfigId = "berlin-de"

\* C11: disconnect() called when no point is active does not raise, does
\* not invoke the tunnel-down capability and leaves the whole registry state
\* unchanged; a second call in a row therefore changes nothing either.
C11_DisconnectIdleIsNoOp ==
    [][(last'.op = "disconnect" /\ activeConfigId = NoId)
          => /\ last' = Op("disconnect", "return", "void")
             /\ configs' = configs
             /\ activeConfigId' = activeConfigId
             /\ probes' = probes
             /\ sweepProbe' = sweepProbe]_vars

\* disconnect has returned early, with no point active, in a registry that
\* holds an added point
C11_Witness ==
    /\ last = Op("disconnect", "return", "void")
    /\ activeConfigId = NoId
    /\ ActiveIds = {}
    /\ "paris-0" \in Ids

\* C12: when connect(id) for a registered id returns true, point id has
\* isActive = true, the active pointer equals id, and every other registered
\* point, the one active before the call included, has isActive = false.
C12_ConnectedIsOnlyActive ==
    (last.op = "connect" /\ last.result = "true")
        => /\ last.arg \in Ids
           /\ configs[last.arg].isActive
           /\ activeConfigId = last.arg
           /\ ActiveIds = {last.arg}

\* C13: when connect(id) for a registered id fails, it returns false without
\* raising, and afterwards no registered point is active: the active pointer
\* is empty and every point has isActive = false, whichever point was active
\* before the call.
C13_FailedConnectLeavesNoneActive ==
    (last.op = "connect" /\ last.result = "false")
        => (activeConfigId = NoId /\ ActiveIds = {})

\* C14: remove(id) returns false and changes nothing when id is not
\* registered; when id is registered it returns true and id is no longer in
\* the registry; when id was the active point, no point is active after
\* remove returns and the active pointer does not refer to the removed id.
C14_RemoveContract ==
    [][last'.op = "remove" =>
          LET id == last'.arg IN
          /\ id \notin Ids =>
                 /\ last'.result = "false"
                 /\ configs' = configs
                 /\ activeConfigId' = activeConfigId
                 /\ probes' = probes
                 /\ sweepProbe' = sweepProbe
          /\ id \in Ids =>
                 /\ last'.result = "true"
                 /\ id \notin DOMAIN configs'
                 /\ activeConfigId = id =>
                        /\ activeConfigId' = NoId
                        /\ \A c \in DOMAIN configs' : ~configs'[c].isActive]_vars

-----------------------------------------------------------------------------
(* Claims about scrape *)

\* a response that is neither RateLimited nor ManagedChallenge
NotBlocked(resp) ==
    /\ resp.kind = "response"
    /\ resp.status # 429
    /\ ~(resp.status = 403 /\ resp.mitigated = "challenge")

\* C2: when the first navigation returns 403 with the challenge-mitigated
\* header set to the challenge value and the second navigation returns a
\* non-blocked response, scrape invokes the CAPTCHA oracle exactly once (and
\* the oracle answers), navigates a second time and returns the result of
\* that second navigation: exactly 2 navigations, no error raised.
C2_ChallengeSolvedThenRetried ==
    (/\ pc = "done"
     /\ Answered(1) = Response(403, "challenge")
     /\ NotBlocked(Answered(2))
     /\ ~params.infiniteScroll
     /\ result # Thrown("solveCloudflareTurnstile"))
        => (/\ events = <<"goto", "solve", "goto">>
            /\ result.kind = "result"
            /\ result.status = Answered(2).status)

C7_NonBlockedTerminal ==
    (pc = "done" /\ NotBlocked(Answered(1)))
        => (/\ events = <<"goto">>
            /\ result.kind = "result"
            /\ result.status = Answered(1).status
            /\ result.body = Answered(1).body
            /\ result.vpnUsed = NoId)

\* C7 amended: after a navigation that returned a response that is neither
\* RateLimited nor ManagedChallenge, no second navigation, no oracle call and
\* no egress connect is made. A returned result carries the upstream status
\* and egressUsed = none; its body is the upstream body, or no body when
\* the body could not be read, if progressive reveal is off, and the rendered
\* document if it is on. An error is raised instead only when progressive
\* reveal is on.
C7_NonBlockedTerminalAmended ==
    (Navs >= 1 /\ NotBlocked(Answered(1)))
        => (/\ events = <<"goto">>
            /\ pc = "done" =>
                 \/ /\ result.kind = "result"
                    /\ result.status = Answered(1).status
                    /\ result.vpnUsed = NoId
                    /\ result.body \in
                          (IF params.infiniteScroll
                           THEN PageContents(Answered(1))
                           ELSE {Answered(1).body, "null"})
                 \/ result.kind = "throw" /\ params.infiniteScroll)

\* the request of the end-to-end example (200, body OK) has returned
C7_Witness ==
    /\ pc = "done"
    /\ Answered(1) = Response(200, "")
    /\ ~params.infiniteScroll
    /\ events = <<"goto">>
    /\ result = [kind |-> "result", body |-> "OK", status |-> 200,
                 vpnUsed |-> NoId]

\* the first navigation was answered with 429
FirstRateLimited ==
    Navs >= 1 /\ Answered(1).kind = "response" /\ Answered(1).status = 429

C16_OracleFailureReturnsBlocked ==
    (/\ pc = "done"
     /\ Answered(1) = Response(403, "challenge")
     /\ events = <<"goto", "solve:fail">>)
        => (/\ result.kind = "result"
            /\ result.status = 403
            /\ result.body = Answered(1).body)

\* calls of the CAPTCHA oracle made so far
OracleCalls == Count(events, "solve") + Count(events, "solve:fail")

\* the request met no RateLimited response: it is on the CAPTCHA path only
OnCaptchaPath == \A k \in 1..Navs : Answered(k).status # 429

\* C17: whatever the target answers, one request on the CAPTCHA path makes
\* at most 2 navigations (in fact at most maxAttempts = 1) and at most 1
\* oracle call; scrape is never entered more than maxAttempts + 1 times, and
\* the entry beyond the ceiling only ends the request with the 'max attempts
\* exceeded' error, whose message names the URL.
C17_CaptchaPathBounded ==
    /\ attempts <= maxAttempts + 1
    /\ attempts > maxAttempts => pc \in {"enter", "done"}
    /\ OnCaptchaPath =>
          /\ Navs <= 2
          /\ Navs <= maxAttempts
          /\ OracleCalls <= 1
    /\ (pc = "done" /\ attempts > maxAttempts) =>
          /\ result.kind = "throw"
          /\ result.error = "MaxScrapeAttemptsExceededError"
          /\ \E i \in DOMAIN result.message : result.message[i] = params.url

\* the target answered ManagedChallenge to every navigation, the oracle
\* answered, and the request has ended with the error of the ceiling
C17_Witness ==
    /\ pc = "done"
    /\ \A k \in 1..MaxNavs : Answered(k) = Response(403, "challenge")
    /\ events = <<"goto", "solve">>
    /\ result = MaxScrapeAttemptsExceededError(params.url)

-----------------------------------------------------------------------------
(* Claims about the pool and the handler *)

\* the request holds a session: acquire has returned and the finally block
\* has not run
Holds(r) == reqs[r].pc \in {"acquired", "finally"} /\ reqs[r].page # NoPage

\* times the request gave a session back to the pool
GivenBack(r) == reqs[r].released + reqs[r].destroyed

\* C3: every session acquired by the handler is given back exactly once
\* when the request ends: by destroy if a fault occurred while it was in
\* use, by release otherwise, never both and never neither; a session on
\* which a fault occurred is never lent again; and a request without a
\* session calls neither release nor destroy.
C3_GivenBackOnce ==
    /\ \A r \in Requests :
          /\ reqs[r].pc # "done" => GivenBack(r) = 0
          /\ reqs[r].page = NoPage => GivenBack(r) = 0
          /\ (reqs[r].pc = "done" /\ reqs[r].page # NoPage) =>
                /\ GivenBack(r) = 1
                /\ reqs[r].fault => reqs[r].destroyed = 1
                /\ ~reqs[r].fault => reqs[r].released = 1
          /\ reqs[r].pc = "acquired" => ~pages[reqs[r].page].faulted
    /\ \A p \in DOMAIN pages :
          pages[p].faulted =>
              \/ pages[p].st = "destroyed"
              \/ /\ pages[p].st = "borrowed"
                 /\ reqs[pages[p].by].pc = "finally"
                 /\ reqs[pages[p].by].fault

\* one request destroyed its faulted session, another released its
\* session, and a third holds a session that is not the faulted one
C3_Witness ==
    \E r1, r2, r3 \in Requests :
        /\ reqs[r1].pc = "done" /\ reqs[r1].fault /\ reqs[r1].destroyed = 1
        /\ reqs[r2].pc = "done" /\ ~reqs[r2].fault /\ reqs[r2].released = 1
        /\ reqs[r2].page # NoPage
        /\ reqs[r3].pc = "acquired" /\ reqs[r3].page # reqs[r1].page

\* C4: the sessions that exist (borrowed plus idle) never exceed the
\* configured maximum, no session is held by two requests at the same time,
\* and a request in acquire while all sessions are borrowed and the maximum is
\* reached stays pending until a release or destroy occurs.
C4_PoolBounded ==
    /\ [](/\ Cardinality(LivePages(pages)) <= MaxTabs
          /\ \A r \in Requests :
                Holds(r) => /\ pages[reqs[r].page].st = "borrowed"
                            /\ pages[reqs[r].page].by = r
          /\ \A r1, r2 \in Requests :
                (r1 # r2 /\ Holds(r1) /\ Holds(r2))
                    => reqs[r1].page # reqs[r2].page
          /\ \A r \in Requests :
                (/\ reqs[r].pc = "acquiring"
                 /\ Cardinality(BorrowedPages(pages)) = MaxTabs)
                    => \E k \in DOMAIN waiters : waiters[k] = r)
    /\ [][\A r \in Requests :
             (/\ reqs[r].pc = "acquiring"
              /\ Cardinality(BorrowedPages(pages)) = MaxTabs
              /\ reqs'[r].pc # "acquiring")
                 => \E q \in Requests :
                        /\ Holds(q)
                        /\ reqs'[q].pc = "done"
                        /\ GivenBack(q) = 0
                        /\ reqs'[q].released + reqs'[q].destroyed = 1]_vars

\* every session the maximum allows is borrowed, by different requests,
\* and a further request is pending in acquire
C4_Witness ==
    /\ Cardinality(BorrowedPages(pages)) = MaxTabs
    /\ Cardinality({r \in Requests : Holds(r)}) = MaxTabs
    /\ waiters # <<>>

\* the attempts of newPage that fail: the engine does not launch or does
\* not open a page
FailedAttempts == {"launchFail", "openFail"}

\* C5: creation checks the engine with a throwaway page before it produces
\* the session; when the engine fails to launch or to open a page, creation
\* tears the engine down and tries again with a new launch, at most 5
\* attempts in total, and raises after the 5th failed attempt; every session
\* of the pool, lent or idle, passed the check.
C5_CreationBounded ==
    /\ [](/\ \A i \in DOMAIN creates :
                /\ creates[i].attempts <= 5
                /\ creates[i].pc = "finish" => creates[i].checked
                /\ (creates[i].pc = "rejected" /\ creates[i].cause = "newPage")
                      => creates[i].attempts = 5
          /\ \A p \in DOMAIN pages : pages[p].checked)
    /\ [][\A i \in DOMAIN creates, outcome \in FailedAttempts :
             newPage(i, outcome) =>
                 IF creates[i].attempts < 5
                 THEN /\ browser' = "null"
                      /\ creates'[i].pc = "newPage"
                      /\ creates'[i].attempts = creates[i].attempts + 1
                 ELSE /\ creates'[i].pc = "rejected"
                      /\ creates'[i].attempts = 5]_vars

\* a creation has raised after its 5th failed attempt while a session that
\* passed the check is lent
C5_Witness ==
    /\ \E i \in DOMAIN creates :
          /\ creates[i].pc = "rejected"
          /\ creates[i].cause = "newPage"
          /\ creates[i].attempts = 5
    /\ \E p \in DOMAIN pages : pages[p].st = "borrowed" /\ pages[p].checked

\* the registry and the pool, which a request without a session leaves alone
PoolAndRegistry == <<regVars, scrapeVars, browser, pages, creates, waiters>>

\* C18: a lightweight (noBrowser) request performs exactly one direct fetch
\* and leaves the pool and the egress registry untouched: no acquire, release
\* or destroy, no oracle call, no egress connect and no retry, even when the
\* fetched response is 429 or 403; the response is answered as fetched.
C18_DirectFetchOnly ==
    /\ [](\A r \in Requests :
            reqs[r].fetches > 0 =>
               /\ reqs[r].fetches = 1
               /\ reqs[r].page = NoPage
               /\ reqs[r].released = 0 /\ reqs[r].destroyed = 0
               /\ reqs[r].pc \in {"finally", "done"}
               /\ reqs[r].fetched # "throw" => reqs[r].sent = reqs[r].fetched)
    /\ [][\A r \in Requests :
            (reqs[r].fetches > 0 \/ reqs'[r].fetches > 0)
               /\ reqs'[r] # reqs[r]
               => PoolAndRegistry' = PoolAndRegistry]_vars

\* a lightweight request that fetched a 429 has been answered with it and has
\* ended while another request holds a session of the pool
C18_Witness ==
    \E r \in Requests :
        /\ reqs[r].pc = "done"
        /\ reqs[r].fetches = 1
        /\ reqs[r].fetched = "429" /\ reqs[r].sent = "429"
        /\ \E q \in Requests : Holds(q)

\* the conflicting combinations of flags
Conflicting(f) ==
    \/ f.noBrowser /\ f.screenshot
    \/ f.noBrowser /\ f.disableJs
    \/ f.disableJs /\ f.infiniteScroll

\* the step is the first step of the handler for request r with flags f
Entered(r, f) ==
    \/ handleReject(r, f)
    \/ \E fetched \in FetchOutcomes : handleNoBrowser(r, f, fetched)
    \/ handleAcquire(r, f)

\* C19: a request with a conflicting combination of flags (noBrowser with
\* screenshot, noBrowser with disableJs, disableJs with infiniteScroll) is
\* rejected with status 400 before any session is acquired and before any
\* fetch or navigation is made.
C19_ConflictingFlagsRejected ==
    [][\A r \in Requests :
          (reqs[r].pc = "new" /\ reqs'[r].pc # "new") =>
             \A f \in FlagsOf(r) :
                (Conflicting(f) /\ Entered(r, f))
                   => /\ reqs'[r].sent = "400"
                      /\ reqs'[r].pc = "done"
                      /\ reqs'[r].fetches = 0
                      /\ PoolAndRegistry' = PoolAndRegistry]_vars

\* C20: when closing a session in destroy fails, the engine is torn down and
\* launched again, destroy does not raise, and every session returned by
\* acquire afterwards is usable on the live engine: a session that belonged
\* to the torn-down engine is not handed out.
C20_NoSessionOfClosedEngine ==
    [][\A r \in Requests :
          (reqs[r].pc # "acquired" /\ reqs'[r].pc = "acquired"
             /\ browser = "live") =>
             (reqs'[r].page \in DOMAIN pages
                 => pages[reqs'[r].page].closedBy # "destroy")]_vars

C22_OverlappingConnectsLeaveOneActive ==
    (/\ Len(calls) = 2
     /\ \A k \in 1..2 : /\ calls[k].pc = "returned"
                        /\ calls[k].result = "true"
                        /\ calls[k].overlapped
                        /\ calls[k].down # "fail"
     /\ calls[1].id # calls[2].id)
        => LET active == {c \in Ids : configs[c].isActive} IN
           /\ Cardinality(active) = 1
           /\ active \subseteq {calls[1].id, calls[2].id}
           /\ activeConfigId \in active
\* C23: no connect and no disconnect of a point starts while a health probe
\* of that point awaits its answer
C23_ProbeNeverOverlapsTransition ==
    [][/\ (last'.op = "connect" /\ last'.result \in {"true", "false"})
            => (last'.arg # sweepProbe /\ last'.arg \notin probes)
       /\ (last'.op = "disconnect" /\ last'.arg # "return")
            => (activeConfigId # sweepProbe /\ activeConfigId \notin probes)]_vars
\* C24: when a request makes the first navigation of its session
\* (page.reload(), then page.goto), the registration of the interception
\* script with that session has completed
C24_HookRegisteredBeforeNavigation ==
    [][\A r \in Requests :
          (reqs[r].pc = "acquired" /\ reqs'[r].pc = "finally")
              => pages[reqs[r].page].hook = "done"]_vars
\* C25: the page never calls the original widget registration: by the time
\* it calls turnstile.render, the injected script has replaced it
C25_RenderAlwaysIntercepted == doc.rendered # "original"

\* C26: scrape is entered again for a challenged request only once the
\* recovery has completed its steps in their order: the captured
\* configuration read, the solution received from the oracle, the token
\* delivered through the callback, the wait for network idle ended; a
\* navigation that follows an oracle call follows all of them
C26_RetryAfterRecoveryInOrder ==
    /\ attempts > 1 => doc.recovery = RecoveryOrder
    /\ \A i \in 2..Len(events) :
          (events[i] = "goto" /\ events[i - 1] = "solve")
              => doc.recovery = RecoveryOrder
    /\ pc = "oracle" => doc.recovery = SubSeq(RecoveryOrder, 1, 1)
    /\ pc = "deliver" => doc.recovery = SubSeq(RecoveryOrder, 1, 2)
    /\ pc = "quiesce" => doc.recovery = SubSeq(RecoveryOrder, 1, 3)

\* a challenged request whose recovery completed has entered scrape again
C26_Witness ==
    /\ attempts = 2
    /\ pc = "enter"
    /\ events = <<"goto", "solve">>
    /\ doc.rendered = "hooked"
    /\ doc.recovery = RecoveryOrder

\* C27: once the solution has been delivered, a wait for network idle that
\* ends at its timeout does not end the request: scrape is entered again
C27_QuiescenceTimeoutProceeds ==
    (Len(doc.recovery) = 4 /\ doc.recovery[4] = "quiet:timeout")
        => (attempts = 2 /\ result # Thrown("solveCloudflareTurnstile"))

\* C28: a request with waitForNetwork for a page that answers 200 and whose
\* network never becomes idle returns the result of that response
C28_NeverQuietPageReturnsResult ==
    (/\ pc = "done"
     /\ params.waitForNetwork
     /\ ~params.infiniteScroll
     /\ ~doc.quiet
     /\ upstream[1] = Response(200, ""))
        => (result.kind = "result" /\ result.status = 200)
\* C29: scrollToBottom makes at most maxScrolls iterations (20 when the
\* option is absent), goes on to another iteration only after one in which
\* the height of the content grew, and an iteration in which it did not grow
\* ends at the deadline of the iteration without raising
C29_ScrollStopsAtFirstNoGrowth ==
    /\ scroll.iterations <= scroll.maxScrolls
    /\ scroll.waited # "timeout"
    /\ (scroll.pc = "loop" /\ scroll.iterations >= 1)
          => scroll.height > scroll.previousHeight
\* C30: under fair scheduling, every request that waits in pool.acquire()
\* eventually obtains a session
C30_WaiterEventuallyServed ==
    \A r \in Requests :
        (reqs[r].pc = "acquiring") ~> (reqs[r].pc = "acquired")
\* C31: once a creation has used up its attempts and left the pool without
\* an engine handle, with no other creation retrying, every factory.create
\* the pool starts from then on for a waiting acquire gets as far as newPage,
\* where the engine is launched again: none is refused before it tried
C31_LaterAcquireRelaunches ==
    [][(/\ browser = "null"
        /\ \A i \in DOMAIN creates : creates[i].pc # "newPage")
          => Cardinality({i \in DOMAIN creates' : creates'[i].cause = "assert"})
                <= Cardinality({i \in DOMAIN creates : creates[i].cause = "assert"})]_vars
\* C32: a request whose use of the session ended in a fault is answered with
\* the failure result that carries the original error (500), whether or not
\* the failure screenshot could be taken, and its session is destroyed
C32_FaultAnsweredAndSessionDestroyed ==
    \A r \in Requests :
        (reqs[r].page # NoPage /\ reqs[r].errored /\ reqs[r].sent # "none")
            => (/\ reqs[r].sent = "500"
                /\ reqs[r].pc = "done" => reqs[r].destroyed = 1)
\* C33: when disconnectVPN has returned, the active pointer is empty and no
\* registered point has isActive = true, whatever the tunnel tool did; the
\* call returned and did not raise
C33_DisconnectClearsActive ==
    last.op = "disconnect"
        => (/\ last.result = "void"
            /\ activeConfigId = NoId
            /\ \A c \in Ids : ~configs[c].isActive)

-----------------------------------------------------------------------------
(* The health sweep: checkAllHealth and checkHealth in src/src/wireguard.ts *)

\* sweeps started by the constructor and the interval timer
MaxSweeps == 2

\* how the fetch of a probe ends: a response that is ok, one with a status
\* below 500, one with a status of 500 or more, the abort after 5 seconds,
\* or a refused connection
ProbeOutcomes == {"ok", "4xx", "5xx", "timeout", "refused"}

\* the health flag a probe that counts the abort as an answer would set
HealthAfter_timeoutOk(outcome) == outcome \in {"ok", "4xx", "timeout"}

\* the health flag a probe sets: response.ok || response.status < 500 when
\* fetch answered, false in the catch branch
HealthAfter(outcome) ==
    IF outcome \in {"timeout", "refused"}
    THEN FALSE
    ELSE outcome = "ok" \/ outcome # "5xx"

\* a checkHealth that stores the point it probed back into the registry
Held_stored(cfgs, id, healthy) ==
    (id :> [DefaultConfigs[id] EXCEPT !.isHealthy = healthy]) @@ cfgs

\* the registry once a probe wrote to the point it holds: the point it
\* looked up before its await, registered or not by now
Held(cfgs, id, healthy) == Checked(cfgs, id, healthy)

\* Array.from(this.configs.keys()): the ids in insertion order
Keys(cfgs) ==
    SelectSeq(<<"istanbul-tr", "berlin-de", "brussels-be", "dubai-ae">>,
              LAMBDA id : id \in DOMAIN cfgs)

\* getHealthStatus: one entry per registered point
getHealthStatus(cfgs, checks) ==
    {[id |-> id, isHealthy |-> cfgs[id].isHealthy, lastCheck |-> checks[id]]
     : id \in DOMAIN cfgs}

InitSweep ==
    /\ configs \in ScrapeRegistries
    /\ activeConfigId = IF \E c \in Ids : configs[c].isActive
                        THEN "dubai-ae" ELSE NoId
    /\ probes = {}
    /\ sweepProbe = NoId
    /\ last = Op("new", "", "")
    /\ ScrapeIdle
    /\ PoolIdle
    /\ AuxIdle

\* checkAllHealth up to its loop: the snapshot of the ids
checkAllHealth ==
    /\ sweep.pc \in {"idle", "done"}
    /\ sweep.sweeps < MaxSweeps
    /\ sweep' = [sweep EXCEPT !.pc = "next", !.sweeps = @ + 1,
                              !.snapshot = Ids, !.ids = Keys(configs),
                              !.probing = NoId, !.outcome = "none",
                              !.probed = {}, !.skipped = {}, !.detached = {}]
    /\ UNCHANGED <<regVars, scrapeVars, poolVars, calls, scroll, engine, net>>

\* one turn of the loop: checkHealth of the next id up to its await of
\* fetch, or its early return when the id is no longer registered
checkHealth ==
    /\ sweep.pc = "next"
    /\ IF sweep.ids = <<>>
       THEN sweep' = [sweep EXCEPT !.pc = "done"]
       ELSE LET id == Head(sweep.ids) IN
            IF id \notin Ids
            THEN sweep' = [sweep EXCEPT !.ids = Tail(@),
                                        !.skipped = @ \cup {id}]
            ELSE sweep' = [sweep EXCEPT !.ids = Tail(@), !.pc = "probing",
                                        !.probing = id]
    /\ UNCHANGED <<regVars, scrapeVars, poolVars, calls, scroll, engine, net>>

\* checkHealth after its await: the try branch or the catch branch, both of
\* which return to the loop
checkHealthSettles(outcome) ==
    /\ sweep.pc = "probing"
    /\ LET id == sweep.probing IN
       /\ configs' = Held(configs, id, HealthAfter(outcome))
       /\ sweep' = [sweep EXCEPT !.pc = "next", !.probing = NoId,
                                 !.outcome = outcome, !.now = @ + 1,
                                 !.lastHealthCheck[id] = sweep.now + 1,
                                 !.probed = @ \cup {id},
                                 !.detached = IF id \in Ids THEN @
                                              ELSE @ \cup {id}]
    /\ UNCHANGED <<activeConfigId, probes, sweepProbe, last, scrapeVars,
                   poolVars, calls, scroll, engine, net>>

NextSweep ==
    \/ checkAllHealth
    \/ checkHealth
    \/ \E outcome \in ProbeOutcomes : checkHealthSettles(outcome)
    \/ \E id \in RaceIds, d \in DownFor(configs, activeConfigId) :
          removeConfig(id, d)

SpecSweep == InitSweep /\ [][NextSweep]_vars

-----------------------------------------------------------------------------
(* Claims about the health sweep *)

\* the ids getHealthStatus lists
Listed(cfgs) == {e.id : e \in getHealthStatus(cfgs, sweep.lastHealthCheck)}

\* C34: every probe that completes, whether fetch answered, was aborted
\* after its timeout or was refused, returns to the loop of the sweep
\* without raising, stamps the last-check time of the point it probed and
\* sets its health flag, to false when the probe failed; and a sweep that
\* ends has probed or skipped every id of its snapshot.
C34_ProbeUpdatesAndNeverRaises ==
    [][/\ (sweep.pc = "probing" /\ sweep'.pc # "probing")
            => LET id == sweep.probing IN
               /\ sweep'.pc = "next"
               /\ sweep'.lastHealthCheck[id] > sweep.lastHealthCheck[id]
               /\ id \in Ids'
                    => /\ configs'[id].isHealthy = (sweep'.outcome \in {"ok", "4xx"})
                       /\ sweep'.outcome \in {"5xx", "timeout", "refused"}
                            => ~configs'[id].isHealthy
       /\ sweep'.pc = "done"
            => sweep'.snapshot = sweep'.probed \cup sweep'.skipped]_vars

\* a probe is in flight after the probe before it was refused and left its
\* point unhealthy with a fresh time stamp
C34_Witness ==
    /\ sweep.pc = "probing"
    /\ sweep.outcome = "refused"
    /\ \E id \in sweep.probed \cap Ids :
          /\ ~configs[id].isHealthy
          /\ sweep.lastHealthCheck[id] = sweep.now

\* C38: a probe that completes after its point was removed leaves the
\* registry as it is (the point is not added again and no other point
\* changes), a probe of a registered point changes no other point, the
\* sweep steps over an id removed since its snapshot and goes on, and
\* getHealthStatus never lists a removed point.
C38_RemovedPointStaysRemoved ==
    [][/\ (sweep.pc = "probing" /\ sweep'.pc # "probing")
            => /\ sweep.probing \notin Ids => configs' = configs
               /\ Ids' = Ids
               /\ \A c \in Ids \ {sweep.probing} : configs'[c] = configs[c]
       /\ (sweep.pc = "next" /\ sweep' # sweep /\ sweep.ids # <<>>
             /\ Head(sweep.ids) \notin Ids)
            => /\ sweep'.pc = "next"
               /\ sweep'.ids = Tail(sweep.ids)
               /\ configs' = configs
       /\ Listed(configs') = Ids'
       /\ Listed(configs') \subseteq Listed(configs)
       /\ (last' # last /\ last'.op = "remove" /\ last'.result = "true")
            => last'.arg \notin Listed(configs')]_vars

\* a sweep ended after one of its probes completed on a point removed
\* during the probe and after it stepped over another removed point
C38_Witness ==
    /\ sweep.pc = "done"
    /\ sweep.detached # {}
    /\ sweep.skipped # {}
    /\ (sweep.detached \cup sweep.skipped) \cap Ids = {}

-----------------------------------------------------------------------------
(* selectBestConfig and connectToBestVPN on the registries the program can
   hold, the empty one included *)

NextBest ==
    \/ NextSelect
    \/ \E location \in SelectHints, d \in DownFor(configs, activeConfigId),
          u \in UpOutcomes :
          last.op = "new" /\ connectToBestVPN(location, d, u)

SpecBest == InitSelect /\ [][NextBest]_vars

\* C35: selectBest returns no point if and only if the registry is empty,
\* whatever the hint and the health flags are; connectToBest returns no
\* point exactly when selectBest has none to give or the connect of the
\* point it selected fails, and otherwise returns a registered point,
\* which is then the active one.
C35_NoneOnlyWhenEmptyOrConnectFails ==
    [][/\ (last.op = "new" /\ last'.op = "select")
            => (last'.result = "null" <=> Ids = {})
       /\ \A location \in SelectHints, d \in DownOutcomes, u \in UpOutcomes :
            (last.op = "new" /\ connectToBestVPN(location, d, u))
                => /\ last'.result = "null"
                        <=> (selectBestConfig(configs, location) = {} \/ u = "fail")
                   /\ selectBestConfig(configs, location) = {} <=> Ids = {}
                   /\ last'.result # "null"
                        => /\ last'.result \in selectBestConfig(configs, location)
                           /\ activeConfigId' = last'.result]_vars

\* selectBest was given a hint that no registered point matches while no
\* point is healthy, and returned a point
C35_Witness ==
    /\ last.op = "select" /\ last.arg = "us"
    /\ Ids # {}
    /\ Matching("us") = {}
    /\ \A c \in Ids : ~configs[c].isHealthy
    /\ last.result \in Ids

-----------------------------------------------------------------------------
(* Claims about the registry as a whole *)

\* C36: in every state reached by add, remove, connect and disconnect,
\* failed tunnel invocations included, the active pointer and the isActive
\* flags agree: either the pointer is empty and no point is flagged, or the
\* pointer names a registered point and that point alone is flagged.
C36_PointerAgreesWithFlags ==
    \/ activeConfigId = NoId /\ ActiveIds = {}
    \/ activeConfigId \in Ids /\ ActiveIds = {activeConfigId}

\* C37: add() with valid input makes the registry one point larger, returns
\* an id that was not registered before, leaves every point registered
\* before as it was, and the new point starts with isActive = false and
\* isHealthy = false.
C37_AddRegistersOneFreshPoint ==
    [][\A in \in AddInputs, t \in 0..MaxClock :
          (/\ wireGuardConfigSchema(in[1], in[2], in[3])
           /\ validateConfig(in[3])
           /\ addConfig(in[1], in[2], in[3], t))
              => /\ last'.result \notin Ids
                 /\ Ids' = Ids \cup {last'.result}
                 /\ Cardinality(Ids') = Cardinality(Ids) + 1
                 /\ \A c \in Ids : configs'[c] = configs[c]
                 /\ ~configs'[last'.result].isActive
                 /\ ~configs'[last'.result].isHealthy]_vars

-----------------------------------------------------------------------------
(* The engine handle: newPage, factory.create, factory.destroy and
   launchBrowser in pool.ts, with the engines told apart *)

\* calls of factory.create and factory.destroy followed
MaxProcs == 3

\* engines launched in all
MaxEngines == 4

\* `let browser: Browser | null = null`
NoEngine == 0

\* the engines that run
LiveEngines == {e \in DOMAIN engine.engines : engine.engines[e] = "running"}

\* engine e after close() was called on it (e is NoEngine when the handle
\* was empty and `browser?.close()` did nothing)
Closed(engines, e) ==
    IF e = NoEngine THEN engines ELSE [engines EXCEPT ![e] = "closed"]

\* puppeteer.launch has been called: one more engine is starting
Launching(engines) == Append(engines, "starting")

\* the engine model as launchBrowser at start-up left it: one engine runs
InitEngine ==
    /\ configs = DefaultConfigs
    /\ activeConfigId = NoId
    /\ probes = {}
    /\ sweepProbe = NoId
    /\ last = Op("new", "", "")
    /\ ScrapeIdle
    /\ PoolIdle
    /\ calls = <<>>
    /\ scroll = ScrollIdle
    /\ sweep = SweepIdle
    /\ net = NetIdle
    /\ engine = [handle |-> 1, engines |-> <<"running">>, procs |-> <<>>]

EngineFrame == UNCHANGED <<regVars, scrapeVars, poolVars, calls, scroll, sweep, net>>

\* the engine of a page crashes
engineCrashes(e) ==
    /\ e \in LiveEngines
    /\ engine' = [engine EXCEPT !.engines[e] = "crashed"]
    /\ EngineFrame

\* factory.destroy whose page.close() rejected: the catch callback calls
\* browser?.close() on the engine the handle names at that moment
destroyEscalates ==
    /\ Len(engine.procs) < MaxProcs
    /\ engine' = [engine EXCEPT !.procs =
                    Append(@, [kind |-> "destroy", pc |-> "closing",
                               target |-> engine.handle, attempts |-> 0])]
    /\ EngineFrame

\* the close of the escalation settled (a rejection is logged): finally
\* calls launchBrowser, which calls puppeteer.launch
destroyRelaunches(k) ==
    /\ k \in DOMAIN engine.procs
    /\ engine.procs[k].kind = "destroy"
    /\ engine.procs[k].pc = "closing"
    /\ Len(engine.engines) < MaxEngines
    /\ engine' = [engine EXCEPT
                    !.engines = Launching(Closed(@, engine.procs[k].target)),
                    !.procs[k].pc = "launching",
                    !.procs[k].target = Len(engine.engines) + 1]
    /\ EngineFrame

\* launchBrowser after its await: `browser = ...`
launchBrowser(k) ==
    /\ k \in DOMAIN engine.procs
    /\ engine.procs[k].kind = "destroy"
    /\ engine.procs[k].pc = "launching"
    /\ LET e == engine.procs[k].target IN
       engine' = [engine EXCEPT
                    !.engines[e] = IF @ = "starting" THEN "running" ELSE @,
                    !.handle = e,
                    !.procs[k].pc = "done"]
    /\ EngineFrame

\* factory.create: assert(browser), then newPage up to its await of
\* browser.newPage() on the engine the handle names
createEnter ==
    /\ Len(engine.procs) < MaxProcs
    /\ engine' = [engine EXCEPT !.procs =
                    Append(@, IF engine.handle = NoEngine
                              THEN [kind |-> "create", pc |-> "done",
                                    target |-> NoEngine, attempts |-> 0]
                              ELSE [kind |-> "create", pc |-> "opening",
                                    target |-> engine.handle, attempts |-> 1])]
    /\ EngineFrame

\* newPage after `await browser.newPage()`: the page, or the catch block up
\* to `await browser?.close()` on the engine the handle names by now
newPageOpened(k) ==
    /\ k \in DOMAIN engine.procs
    /\ engine.procs[k].kind = "create"
    /\ engine.procs[k].pc = "opening"
    /\ IF engine.engines[engine.procs[k].target] = "running"
          \/ engine.procs[k].attempts >= newPageMaxAttempts
       THEN engine' = [engine EXCEPT !.procs[k].pc = "done"]
       ELSE engine' = [engine EXCEPT !.procs[k].pc = "closing",
                                     !.procs[k].target = engine.handle]
    /\ EngineFrame

\* newPage after `await browser?.close()`: `browser = null`, then
\* newPage(attempts + 1) up to its await of puppeteer.launch
newPageRelaunches(k) ==
    /\ k \in DOMAIN engine.procs
    /\ engine.procs[k].kind = "create"
    /\ engine.procs[k].pc = "closing"
    /\ Len(engine.engines) < MaxEngines
    /\ engine' = [engine EXCEPT
                    !.engines = Launching(Closed(@, engine.procs[k].target)),
                    !.handle = NoEngine,
                    !.procs[k].pc = "launching",
                    !.procs[k].target = Len(engine.engines) + 1,
                    !.procs[k].attempts = @ + 1]
    /\ EngineFrame

\* newPage after `browser = await puppeteer.launch(...)`, up to its await of
\* browser.newPage()
newPageLaunched(k) ==
    /\ k \in DOMAIN engine.procs
    /\ engine.procs[k].kind = "create"
    /\ engine.procs[k].pc = "launching"
    /\ LET e == engine.procs[k].target IN
       engine' = [engine EXCEPT
                    !.engines[e] = IF @ = "starting" THEN "running" ELSE @,
                    !.handle = e,
                    !.procs[k].pc = "opening"]
    /\ EngineFrame

NextEngine ==
    \/ \E e \in 1..MaxEngines : engineCrashes(e)
    \/ destroyEscalates
    \/ createEnter
    \/ \E k \in 1..MaxProcs :
          \/ destroyRelaunches(k)
          \/ launchBrowser(k)
          \/ newPageOpened(k)
          \/ newPageRelaunches(k)
          \/ newPageLaunched(k)

SpecEngine == InitEngine /\ [][NextEngine]_vars

\* C39: once a call of destroy that escalated and a call of create that
\* overlapped it have both finished, at most one engine runs, and the
\* handle refers to it.
C39_OneEngineAndHandleOnIt ==
    (/\ Len(engine.procs) = 2
     /\ engine.procs[1].kind # engine.procs[2].kind
     /\ \A k \in DOMAIN engine.procs : engine.procs[k].pc = "done")
        => /\ Cardinality(LiveEngines) <= 1
           /\ \A e \in LiveEngines : engine.handle = e

-----------------------------------------------------------------------------
(* Request interception on a pooled session: the set-up at the entry of
   scrape in src/src/scrape.ts *)

\* calls of scrape on the session, from the handlers of successive requests
MaxScrapes == 3

\* requests of the session's document followed while interception is on
MaxIntercepted == 2

\* a session as factory.create made it: interception off, no listener
InitNet ==
    /\ configs = DefaultConfigs
    /\ activeConfigId = NoId
    /\ probes = {}
    /\ sweepProbe = NoId
    /\ last = Op("new", "", "")
    /\ ScrapeIdle
    /\ PoolIdle
    /\ calls = <<>>
    /\ scroll = ScrollIdle
    /\ sweep = SweepIdle
    /\ engine = EngineIdle
    /\ net = NetIdle

\* scrape from its entry to its await of page.setRequestInterception: the
\* check of the ceiling and page.removeAllListeners('request')
scrapeSetUp(blockResources) ==
    /\ \/ net.pc = "idle" /\ net.scrapes < MaxScrapes
       \/ net.pc = "retry" /\ blockResources = net.blockResources
    /\ net' = IF CeilingExceeded(net.attempts)
              THEN [net EXCEPT !.pc = "idle", !.attempts = 1]
              ELSE [net EXCEPT !.pc = "setting",
                               !.scrapes = IF net.pc = "idle" THEN @ + 1 ELSE @,
                               !.blockResources = blockResources,
                               !.handlers = 0]
    /\ UNCHANGED <<regVars, scrapeVars, poolVars, calls, scroll, sweep, engine>>

\* page.setRequestInterception resolved: page.on('request', ...) when
\* resource blocking is enabled, then scrape up to its await of page.goto
scrapeIntercepts ==
    /\ net.pc = "setting"
    /\ net' = [net EXCEPT !.pc = "goto",
                          !.interception = net.blockResources,
                          !.handlers = IF net.blockResources THEN @ + 1 ELSE @]
    /\ UNCHANGED <<regVars, scrapeVars, poolVars, calls, scroll, sweep, engine>>

\* page.goto and the rest of scrape: the result, or the recursive call
\* after the challenge was handled
scrapeNavigated(mitigated) ==
    /\ net.pc = "goto"
    /\ net' = IF mitigated
              THEN [net EXCEPT !.pc = "retry", !.attempts = @ + 1]
              ELSE [net EXCEPT !.pc = "idle", !.attempts = 1]
    /\ UNCHANGED <<regVars, scrapeVars, poolVars, calls, scroll, sweep, engine>>

\* the document of the session (reloaded by the handler before scrape, or
\* navigated by it) makes a request while interception is on: the request
\* is paused and every registered listener answers it, by abort or continue
documentRequests ==
    /\ net.interception
    /\ Len(net.answers) < MaxIntercepted
    /\ net' = [net EXCEPT !.answers = Append(@, net.handlers)]
    /\ UNCHANGED <<regVars, scrapeVars, poolVars, calls, scroll, sweep, engine>>

NextNet ==
    \/ \E blockResources \in BOOLEAN : scrapeSetUp(blockResources)
    \/ scrapeIntercepts
    \/ \E mitigated \in BOOLEAN : scrapeNavigated(mitigated)
    \/ documentRequests

SpecNet == InitNet /\ [][NextNet]_vars

\* C40: whatever scrapes and retries the session went through, at most one
\* request listener is registered, exactly one once scrape set resource
\* blocking up and none once it turned it off, and every request that was
\* intercepted was answered (aborted or continued) exactly once.
C40_OneHandlerAnswersOnce ==
    /\ net.handlers <= 1
    /\ net.pc \in {"goto", "retry", "idle"} /\ net.scrapes > 0
          => net.handlers = IF net.blockResources THEN 1 ELSE 0
    /\ \A i \in DOMAIN net.answers : net.answers[i] = 1

====
